---- MODULE Spec2Model ----
(***************************************************************************)
(* Render worker of Auto-Reels: the job handlers of the BullMQ workers     *)
(* (render-tasks, remotion-render-tasks, remotion-kinetic-typography-tasks *)
(* and the video-tools job), the conditional-update finalization protocol  *)
(* (finalizeRenderSuccess, finalizeProjectSuccess) and the DbService       *)
(* statements they issue.  One attempt = one invocation of a handler for   *)
(* the same job; every await of the handler is one step of the attempt.    *)
(***************************************************************************)
EXTENDS Integers, Sequences, FiniteSets, TLC

\* Number of deliveries of the same job that the queue makes (first delivery,
\* retries after a failure, duplicate deliveries of a stalled job).
MaxAttempts == 2
\* Largest credits_balance a user starts with.
MaxBalance == 2

Attempts == 1..MaxAttempts

VARIABLES
    job,            \* the job payload and the rows the engine only reads
    step,           \* media_steps row of the render step
    media,          \* media row
    project,        \* projects row (linked to the media, or the kinetic / video-tools project)
    balance,        \* users.credits_balance
    ledger,         \* credit_transactions rows, in insertion order
    emails,         \* completion emails handed to the mail service
    stored,         \* the result blob exists in app storage
    pc,             \* per attempt: the await the handler is suspended at
    err,            \* per attempt: message of the error caught by the handler
    thrown,         \* per attempt: the error the handler threw to the queue: "error" (the one
                    \* it caught) or "dbErr" (the rejection of its own failure write)
    stepUpdated,    \* per attempt: local stepUpdated of finalizeRenderSuccess
    mediaFinalized, \* per attempt: local mediaFinalized / updated of the finalize routine
    currentBalance, \* per attempt: local currentBalance of deductCredits
    effects,        \* per attempt: the writes and side effects this attempt performed
    rejected,       \* per attempt: the best-effort operations ("email", "credit", the failure
                    \* write "record") that rejected during this attempt
    now,            \* Date.now(), in units of the poll interval
    deadline,       \* per attempt: local deadline of the poll loop
    progress,       \* per attempt: the last record getRenderProgress resolved with
    dirs,           \* the directories that exist under os.tmpdir()
    workDir,        \* per attempt: local workDir of the handler (<<>> before it is computed)
    cleanup,        \* per attempt: what the finally block did ("removed", "absent", "failed")
    outcome,        \* per attempt: what the handler's promise settled with
    call,           \* the arguments of a call of a pure function of the pipeline
    result          \* what the call returned: <<>> before it returns, <<value>> after

dbVars == <<step, media, project, balance, ledger, emails, stored>>
attemptVars == <<pc, err, thrown, stepUpdated, mediaFinalized, currentBalance, effects, rejected>>
pollVars == <<now, deadline, progress>>
callVars == <<call, result>>
fsVars == <<dirs, workDir, cleanup, outcome>>
vars == <<job, step, media, project, balance, ledger, emails, stored,
          pc, err, thrown, stepUpdated, mediaFinalized, currentBalance, effects, rejected,
          now, deadline, progress, dirs, workDir, cleanup, outcome, call, result>>

(***************************************************************************)
(* Job payloads and read-only rows                                         *)
(***************************************************************************)
\* media.input_config.duration as stored ("" = absent, "other" = an unknown bucket)
Durations == {"", "30-60", "60-90", "90-120", "other"}
\* nouser: user_id is NULL; norow: user_id set, no users row (LEFT JOIN gives NULLs);
\* noemail: users row without email; full: users row with email
UserCases == {"nouser", "norow", "noemail", "full"}

hasUserId == job.userCase # "nouser"
userRowExists == job.userCase \in {"noemail", "full"}
hasEmail == job.userCase = "full"

\* CREDIT_COSTS[duration] ?? CREDIT_COSTS.default, with duration = config.duration || '30-60'
CREDIT_COSTS(d) ==
    CASE d = "30-60" -> 1
      [] d = "60-90" -> 2
      [] d = "90-120" -> 3
      [] OTHER -> 1

creditCost ==
    IF job.kind \in {"render", "remotion"}
    THEN CREDIT_COSTS(IF job.duration = "" THEN "30-60" ELSE job.duration)
    ELSE job.credit_cost

\* resultBlobId is a function of userId and mediaId (projectId) only: every attempt
\* of a job uploads to, and records, the same blob id.
resultBlobId == "final_render.mp4"

(***************************************************************************)
(* DbService statements, as functions of the row they update               *)
(***************************************************************************)
\* UPDATE media_steps SET status, blob_storage_id, error_message, completed_at WHERE id = $5
updateStepStatus(s, status, blobId, errorMessage) ==
    [status |-> status, blob |-> blobId, err |-> errorMessage]

\* ... WHERE id = $5 AND status = 'processing'
StepWhereProcessing_Any(s) == TRUE
StepWhereProcessing(s) == s.status = "processing"

\* UPDATE media_steps SET ... WHERE id = $5 AND status = 'processing' RETURNING id;
\* return (res.rowCount ?? 0) > 0
updateStepStatusOnlyIfProcessing_NoGuard(s, status, blobId, errorMessage) ==
    [row |-> [status |-> status, blob |-> blobId, err |-> errorMessage], rowCount |-> 1]
updateStepStatusOnlyIfProcessing(s, status, blobId, errorMessage) ==
    IF StepWhereProcessing(s)
    THEN [row |-> [status |-> status, blob |-> blobId, err |-> errorMessage], rowCount |-> 1]
    ELSE [row |-> s, rowCount |-> 0]

\* ... WHERE id = $2 AND status != 'completed'
WhereNotCompleted(r) == r.status # "completed"

\* UPDATE media SET status = 'completed', blob_storage_id = $1 ... WHERE id = $2
\*  AND status != 'completed' RETURNING id; return (res.rowCount ?? 0) > 0
finalizeMediaOnlyIfNotCompleted(m, blobId) ==
    IF WhereNotCompleted(m)
    THEN [row |-> [status |-> "completed", blob |-> blobId], rowCount |-> 1]
    ELSE [row |-> m, rowCount |-> 0]

\* UPDATE projects p SET status = 'completed', output_url = $1 FROM media m
\*  WHERE m.id = $2 AND m.project_id = p.id AND p.status != 'completed'
updateProjectOnMediaComplete(p, blobId) ==
    IF job.hasProject /\ WhereNotCompleted(p)
    THEN [status |-> "completed", output |-> blobId, err |-> p.err]
    ELSE p

\* UPDATE projects SET status = 'completed', output_url = $1 ... WHERE id = $2
\*  AND status != 'completed' RETURNING id; return (res.rowCount ?? 0) > 0
finalizeProjectOnlyIfNotCompleted(p, blobId) ==
    IF WhereNotCompleted(p)
    THEN [row |-> [status |-> "completed", output |-> blobId, err |-> p.err], rowCount |-> 1]
    ELSE [row |-> p, rowCount |-> 0]

\* UPDATE projects SET status = $1, error_message = $2, updated_at = NOW() WHERE id = $3
updateProjectStatus(p, status, errorMessage) ==
    [status |-> status, output |-> p.output, err |-> errorMessage]

(***************************************************************************)
(* Helpers on the per-attempt state                                        *)
(***************************************************************************)
Set(f, a, v) == [f EXCEPT ![a] = v]
AddEffect(a, e) == [effects EXCEPT ![a] = @ \cup {e}]

\* An await inside the handler's try block rejects with message msg: control
\* passes to the catch block of the worker.
Throw(a, msg) ==
    /\ pc' = Set(pc, a, "catch")
    /\ err' = Set(err, a, msg)

InFlight(a) == pc[a] \notin {"idle", "ok", "failed", "crashed"}


(***************************************************************************)
(* Queue delivery                                                          *)
(***************************************************************************)
FirstStage ==
    CASE job.kind = "render" -> "download"
      [] job.kind = "remotion" -> "submit"
      [] job.kind = "kinetic" -> "k_submit"
      [] OTHER -> "v_download"

\* The queue hands the job to a handler: attempts are numbered in delivery order.
\* Delivery is at-least-once, so a delivery may happen while an earlier attempt
\* is still running (a stalled job is re-queued) as well as after it failed.
Deliver(a) ==
    /\ pc[a] = "idle"
    /\ IF a = 1 THEN TRUE ELSE pc[a - 1] # "idle"
    /\ pc' = Set(pc, a, FirstStage)
    /\ UNCHANGED <<job, dbVars, err, thrown, stepUpdated, mediaFinalized,
                   currentBalance, effects, rejected>>

\* The worker process dies (OOM kill, deploy, host loss) while the handler is
\* suspended inside the finalize routine: nothing of the handler runs any more,
\* not even its catch block.  (A process that dies before finalization has
\* written no row: it is an attempt that was delivered and never went on.)
InFinalize(a) ==
    pc[a] \in {"fin_step", "fin_media", "fin_project", "fin_info", "fin_email",
               "k_finalize", "k_info", "credit_select", "credit_update", "credit_insert"}

Crash(a) ==
    /\ InFinalize(a)
    /\ pc' = Set(pc, a, "crashed")
    /\ UNCHANGED <<job, dbVars, err, thrown, stepUpdated, mediaFinalized,
                   currentBalance, effects, rejected>>

\* One await of a stage that touches no shared row: it resolves (next) or rejects (msg).
Stage(a, at, next, msg) ==
    /\ pc[a] = at
    /\ \/ /\ pc' = Set(pc, a, next)
          /\ err' = err
       \/ Throw(a, msg)
    /\ UNCHANGED <<job, dbVars, thrown, stepUpdated, mediaFinalized,
                   currentBalance, effects, rejected>>

\* storage.upload(resultBlobId, stream): resolves with the blob stored, or rejects.
Upload_NotAwaited(a, at, next) ==
    /\ pc[a] = at
    /\ pc' = Set(pc, a, next)
    /\ UNCHANGED <<job, dbVars, err, thrown, stepUpdated, mediaFinalized,
                   currentBalance, effects, rejected>>
Upload(a, at, next) ==
    /\ pc[a] = at
    /\ \/ /\ stored' = TRUE
          /\ pc' = Set(pc, a, next)
          /\ err' = err
       \/ /\ Throw(a, "upload failed")
          /\ stored' = stored
    /\ UNCHANGED <<job, step, media, project, balance, ledger, emails, thrown,
                   stepUpdated, mediaFinalized, currentBalance, effects, rejected>>

(***************************************************************************)
(* render-tasks worker (FFmpeg path), stages before finalization           *)
(***************************************************************************)
\* await Promise.all([...storage.downloadToFile(...)])
DownloadAssets(a) == job.kind = "render" /\ Stage(a, "download", "process", "download failed")

\* await processor.process({...})
ProcessVideo(a) == job.kind = "render" /\ Stage(a, "process", "upload", "ffmpeg failed")

\* await storage.upload(resultBlobId, createReadStream(outputPath))
UploadResult(a) == job.kind = "render" /\ Upload(a, "upload", "fin_step")

(***************************************************************************)
(* remotion-render-tasks worker: runRemotionRender before finalization     *)
(***************************************************************************)
\* signed URLs, caption fetch, pacing, then renderMediaOnLambda
RemotionSubmit(a) == job.kind = "remotion" /\ Stage(a, "submit", "poll", "lambda invoke failed")

\* the poll loop: done with an output key, done without one, a fatal error, or the deadline
PollErrors == {"no output key", "remote fatal error", "render timeout"}
RemotionPoll(a) ==
    /\ job.kind = "remotion"
    /\ pc[a] = "poll"
    /\ \/ /\ pc' = Set(pc, a, "fetch")
          /\ err' = err
       \/ \E msg \in PollErrors : Throw(a, msg)
    /\ UNCHANGED <<job, dbVars, thrown, stepUpdated, mediaFinalized,
                   currentBalance, effects, rejected>>

\* fetch(downloadUrl) of the rendered file
RemotionFetch(a) == job.kind = "remotion" /\ Stage(a, "fetch", "r_upload", "Failed to download render")

\* await storage.upload(resultBlobId, nodeStream)
RemotionUpload(a) == job.kind = "remotion" /\ Upload(a, "r_upload", "fin_step")


(***************************************************************************)
(* finalizeRenderSuccess                                                   *)
(***************************************************************************)
\* if (!stepUpdated) return;
AfterStepUpdate_NoReturn(applied) == "fin_media"
AfterStepUpdate(applied) == IF applied THEN "fin_media" ELSE "ok"

\* const stepUpdated = await db.updateStepStatusOnlyIfProcessing(stepId, 'success', resultBlobId)
FinalizeStep(a) ==
    /\ pc[a] = "fin_step"
    /\ \/ LET res == updateStepStatusOnlyIfProcessing(step, "success", resultBlobId, "none")
              applied == res.rowCount > 0 IN
          /\ step' = res.row
          /\ stepUpdated' = Set(stepUpdated, a, IF applied THEN "true" ELSE "false")
          /\ effects' = IF applied THEN AddEffect(a, "step") ELSE effects
          /\ pc' = Set(pc, a, AfterStepUpdate(applied))
          /\ err' = err
       \/ /\ Throw(a, "db error")
          /\ UNCHANGED <<step, stepUpdated, effects>>
    /\ UNCHANGED <<job, media, project, balance, ledger, emails, stored, thrown,
                   mediaFinalized, currentBalance, rejected>>

\* if (!mediaFinalized) return;
AfterMediaUpdate(applied) == IF applied THEN "fin_project" ELSE "ok"

\* const mediaFinalized = await db.finalizeMediaOnlyIfNotCompleted(mediaId, resultBlobId)
FinalizeMedia(a) ==
    /\ pc[a] = "fin_media"
    /\ \/ LET res == finalizeMediaOnlyIfNotCompleted(media, resultBlobId)
              applied == res.rowCount > 0 IN
          /\ media' = res.row
          /\ mediaFinalized' = Set(mediaFinalized, a, IF applied THEN "true" ELSE "false")
          /\ effects' = IF applied THEN AddEffect(a, "media") ELSE effects
          /\ pc' = Set(pc, a, AfterMediaUpdate(applied))
          /\ err' = err
       \/ /\ Throw(a, "db error")
          /\ UNCHANGED <<media, mediaFinalized, effects>>
    /\ UNCHANGED <<job, step, project, balance, ledger, emails, stored, thrown,
                   stepUpdated, currentBalance, rejected>>

\* await db.updateProjectOnMediaComplete(mediaId, resultBlobId)
FinalizeLinkedProject(a) ==
    /\ pc[a] = "fin_project"
    /\ \/ /\ project' = updateProjectOnMediaComplete(project, resultBlobId)
          /\ effects' = IF project' # project THEN AddEffect(a, "project") ELSE effects
          /\ pc' = Set(pc, a, "fin_info")
          /\ err' = err
       \/ /\ Throw(a, "db error")
          /\ UNCHANGED <<project, effects>>
    /\ UNCHANGED <<job, step, media, balance, ledger, emails, stored, thrown,
                   stepUpdated, mediaFinalized, currentBalance, rejected>>

\* if (userId) { try { await db.deductCredits(...) } catch { log } }
AfterEmail == IF hasUserId THEN "credit_select" ELSE "ok"
\* if (mediaInfo.email) { try { ... } catch { log } }
AfterMediaInfo == IF hasEmail THEN "fin_email" ELSE AfterEmail

\* const mediaInfo = await db.getMediaInfo(mediaId); the media row exists (its
\* conditional update just applied), so mediaInfo is never undefined here.
GetMediaInfo(a) ==
    /\ pc[a] = "fin_info"
    /\ \/ /\ pc' = Set(pc, a, AfterMediaInfo)
          /\ err' = err
       \/ Throw(a, "db error")
    /\ UNCHANGED <<job, dbVars, thrown, stepUpdated, mediaFinalized,
                   currentBalance, effects, rejected>>

\* catch (emailErr) { console.error(...) }: the failure is logged and execution continues
SendEmailFailed_Rethrow(a) ==
    /\ rejected' = [rejected EXCEPT ![a] = @ \cup {"email"}]
    /\ Throw(a, "email failed")
SendEmailFailed(a) ==
    /\ rejected' = [rejected EXCEPT ![a] = @ \cup {"email"}]
    /\ pc' = Set(pc, a, AfterEmail)
    /\ err' = err

\* try { signedUrl = await storage.getSignedUrl(resultBlobId);
\*       await mailer.sendRenderCompleteEmail(...) } catch { log }
SendEmail(a) ==
    /\ pc[a] = "fin_email"
    /\ \/ /\ emails' = emails + 1
          /\ effects' = AddEffect(a, "email")
          /\ pc' = Set(pc, a, AfterEmail)
          /\ UNCHANGED <<err, rejected>>
       \/ /\ SendEmailFailed(a)
          /\ UNCHANGED <<emails, effects>>
    /\ UNCHANGED <<job, step, media, project, balance, ledger, stored, thrown,
                   stepUpdated, mediaFinalized, currentBalance>>

(***************************************************************************)
(* DbService.deductCredits, called inside try/catch by both finalize       *)
(* routines: three statements on the pool, each its own await              *)
(***************************************************************************)
\* catch (creditErr) { console.error(...) }: logged, the finalize routine returns
DeductFailed(a) ==
    /\ rejected' = [rejected EXCEPT ![a] = @ \cup {"credit"}]
    /\ pc' = Set(pc, a, "ok")

\* deductCredits without its two checks
DeductSelect_Unchecked(a) ==
    /\ pc[a] = "credit_select"
    /\ effects' = AddEffect(a, "deduct_called")
    /\ \/ /\ currentBalance' = Set(currentBalance, a, balance)
          /\ pc' = Set(pc, a, "credit_update")
          /\ rejected' = rejected
       \/ /\ DeductFailed(a)
          /\ currentBalance' = currentBalance
    /\ UNCHANGED <<job, dbVars, err, thrown, stepUpdated, mediaFinalized>>

\* SELECT credits_balance FROM users WHERE id = $1 FOR UPDATE; 'User not found';
\* if (currentBalance < amount) throw new Error('Insufficient credits')
DeductSelect(a) ==
    /\ pc[a] = "credit_select"
    /\ effects' = AddEffect(a, "deduct_called")
    /\ \/ /\ userRowExists /\ balance >= creditCost
          /\ currentBalance' = Set(currentBalance, a, balance)
          /\ pc' = Set(pc, a, "credit_update")
          /\ rejected' = rejected
       \/ /\ ~userRowExists \/ balance < creditCost
          /\ DeductFailed(a)
          /\ currentBalance' = currentBalance
       \/ /\ DeductFailed(a)
          /\ currentBalance' = currentBalance
    /\ UNCHANGED <<job, dbVars, err, thrown, stepUpdated, mediaFinalized>>

\* UPDATE users SET credits_balance = $1 WHERE id = $2, $1 = currentBalance - amount
DeductUpdate(a) ==
    /\ pc[a] = "credit_update"
    /\ \/ /\ balance' = currentBalance[a] - creditCost
          /\ effects' = AddEffect(a, "credit")
          /\ pc' = Set(pc, a, "credit_insert")
          /\ rejected' = rejected
       \/ /\ DeductFailed(a)
          /\ UNCHANGED <<balance, effects>>
    /\ UNCHANGED <<job, step, media, project, ledger, emails, stored, err, thrown,
                   stepUpdated, mediaFinalized, currentBalance>>

\* INSERT INTO credit_transactions (..., amount, balance_after, ...) VALUES (..., -amount, newBalance, ...)
DeductInsert(a) ==
    /\ pc[a] = "credit_insert"
    /\ \/ /\ ledger' = Append(ledger, [amount |-> 0 - creditCost,
                                       balance_after |-> currentBalance[a] - creditCost])
          /\ pc' = Set(pc, a, "ok")
          /\ rejected' = rejected
       \/ /\ DeductFailed(a)
          /\ ledger' = ledger
    /\ UNCHANGED <<job, step, media, project, balance, emails, stored, err, thrown,
                   stepUpdated, mediaFinalized, currentBalance, effects>>

(***************************************************************************)
(* catch blocks of the media workers (render-tasks, remotion-render-tasks) *)
(***************************************************************************)
\* try { await db.updateStepStatus(stepId, 'failed', undefined, error.message) }
\* catch (dbErr) { log }  throw error;
MarkStepFailed(a) ==
    /\ pc[a] = "catch"
    /\ job.kind \in {"render", "remotion"}
    /\ \/ /\ step' = updateStepStatus(step, "failed", "null", err[a])
          /\ effects' = AddEffect(a, "step_failed")
          /\ rejected' = rejected
       \/ /\ rejected' = [rejected EXCEPT ![a] = @ \cup {"record"}]
          /\ UNCHANGED <<step, effects>>
    /\ thrown' = Set(thrown, a, "error")
    /\ pc' = Set(pc, a, "failed")
    /\ err' = Set(err, a, "none")
    /\ UNCHANGED <<job, media, project, balance, ledger, emails, stored,
                   stepUpdated, mediaFinalized, currentBalance>>

(***************************************************************************)
(* Media job: every interleaving of the attempts of one job                *)
(***************************************************************************)
\* no poll loop has started
NoProgress == [done |-> FALSE, objectKey |-> FALSE, fatalErrorEncountered |-> FALSE,
               errorMessage |-> "", errors |-> <<>>]
PollIdle ==
    /\ now = 0
    /\ deadline = [a \in Attempts |-> 0]
    /\ progress = [a \in Attempts |-> NoProgress]

\* no handler has computed a work directory
NoDir == <<>>
FsIdle ==
    /\ dirs = {}
    /\ workDir = [a \in Attempts |-> NoDir]
    /\ cleanup = [a \in Attempts |-> "none"]
    /\ outcome = [a \in Attempts |-> "pending"]

\* no pure function is being called
CallIdle ==
    /\ call = [fn |-> "none"]
    /\ result = <<>>

NewStep == [status |-> "processing", blob |-> "null", err |-> "none"]
NewMedia == [status |-> "processing", blob |-> "null"]
NewProject == [status |-> "processing", output |-> "null", err |-> "none"]

\* The (credits_balance, duration) pairs a job starts from: every duration with the
\* largest balance, every balance with the duration absent.
BalanceCases ==
    {<<MaxBalance, d>> : d \in Durations} \cup {<<b, "">> : b \in 0..MaxBalance}

\* Rows of a media job.  Fields that no statement reads for a given user case are
\* kept at one value, and the linked project is varied for the users with and
\* without id only.
MediaJobs ==
    {j \in [kind : {"render", "remotion"}, userCase : UserCases, duration : Durations,
            hasProject : BOOLEAN, credit_cost : {0}, balance : 0..MaxBalance] :
        /\ j.userCase \in {"nouser", "norow"} => j.duration = "" /\ j.balance = 0
        /\ j.userCase \in {"noemail", "full"} => <<j.balance, j.duration>> \in BalanceCases
        /\ j.userCase \in {"norow", "noemail"} => ~j.hasProject}

InitAttempts ==
    /\ pc = [a \in Attempts |-> "idle"]
    /\ err = [a \in Attempts |-> "none"]
    /\ thrown = [a \in Attempts |-> "none"]
    /\ stepUpdated = [a \in Attempts |-> "unset"]
    /\ mediaFinalized = [a \in Attempts |-> "unset"]
    /\ currentBalance = [a \in Attempts |-> 0]
    /\ effects = [a \in Attempts |-> {}]
    /\ rejected = [a \in Attempts |-> {}]

InitRows ==
    /\ step = NewStep
    /\ media = NewMedia
    /\ project = NewProject
    /\ balance = job.balance
    /\ ledger = <<>>
    /\ emails = 0
    /\ stored = FALSE

Init ==
    /\ job \in MediaJobs
    /\ InitRows
    /\ InitAttempts
    /\ PollIdle
    /\ FsIdle
    /\ CallIdle

RenderWorker(a) ==
    \/ DownloadAssets(a)
    \/ ProcessVideo(a)
    \/ UploadResult(a)

RemotionWorker(a) ==
    \/ RemotionSubmit(a)
    \/ RemotionPoll(a)
    \/ RemotionFetch(a)
    \/ RemotionUpload(a)

finalizeRenderSuccess(a) ==
    \/ FinalizeStep(a)
    \/ FinalizeMedia(a)
    \/ FinalizeLinkedProject(a)
    \/ GetMediaInfo(a)
    \/ SendEmail(a)

deductCredits(a) ==
    \/ DeductSelect(a)
    \/ DeductUpdate(a)
    \/ DeductInsert(a)

MediaAttempt(a) ==
    \/ RenderWorker(a)
    \/ RemotionWorker(a)
    \/ finalizeRenderSuccess(a)
    \/ deductCredits(a)
    \/ MarkStepFailed(a)

Next ==
    /\ \E a \in Attempts :
          \/ Deliver(a)
          \/ MediaAttempt(a)
          \/ Crash(a)
    /\ UNCHANGED <<pollVars, callVars, fsVars>>

Spec == Init /\ [][Next]_vars


(***************************************************************************)
(* Media job under the queue's retry policy alone: the job is delivered    *)
(* again only after the previous attempt failed or its process died        *)
(***************************************************************************)
Redeliver(a) ==
    /\ IF a = 1 THEN TRUE ELSE pc[a - 1] \in {"failed", "crashed"}
    /\ Deliver(a)

NextRetry ==
    /\ \E a \in Attempts :
          \/ Redeliver(a)
          \/ MediaAttempt(a)
          \/ Crash(a)
    /\ UNCHANGED <<pollVars, callVars, fsVars>>

SpecRetry == Init /\ [][NextRetry]_vars

(***************************************************************************)
(* finalizeRenderSuccess called directly, one call after the other, with   *)
(* the same mediaId, stepId and resultBlobId                               *)
(***************************************************************************)
\* call a starts when the call before it has settled
CallFinalize(a) ==
    /\ pc[a] = "idle"
    /\ IF a = 1 THEN TRUE ELSE pc[a - 1] \in {"ok", "failed"}
    /\ pc' = Set(pc, a, "fin_step")
    /\ stored' = TRUE
    /\ UNCHANGED <<job, step, media, project, balance, ledger, emails, err, thrown,
                   stepUpdated, mediaFinalized, currentBalance, effects, rejected>>

\* a rejection of the routine reaches its caller
CallRejects(a) ==
    /\ pc[a] = "catch"
    /\ pc' = Set(pc, a, "failed")
    /\ thrown' = Set(thrown, a, "error")
    /\ err' = Set(err, a, "none")
    /\ UNCHANGED <<job, dbVars, stepUpdated, mediaFinalized, currentBalance, effects, rejected>>

NextTwice ==
    /\ \E a \in Attempts :
          \/ CallFinalize(a)
          \/ finalizeRenderSuccess(a)
          \/ deductCredits(a)
          \/ CallRejects(a)
    /\ UNCHANGED <<pollVars, callVars, fsVars>>

SpecTwice == Init /\ [][NextTwice]_vars

(***************************************************************************)
(* remotion-kinetic-typography-tasks worker: runKineticRemotionRender      *)
(***************************************************************************)
\* payload checks, music URL, then renderMediaOnLambda
KineticSubmit(a) == job.kind = "kinetic" /\ Stage(a, "k_submit", "k_poll", "lambda invoke failed")

\* the poll loop
KineticPoll(a) ==
    /\ job.kind = "kinetic"
    /\ pc[a] = "k_poll"
    /\ \/ /\ pc' = Set(pc, a, "k_fetch")
          /\ err' = err
       \/ \E msg \in PollErrors : Throw(a, msg)
    /\ UNCHANGED <<job, dbVars, thrown, stepUpdated, mediaFinalized,
                   currentBalance, effects, rejected>>

\* fetch(downloadUrl) of the rendered file
KineticFetch(a) == job.kind = "kinetic" /\ Stage(a, "k_fetch", "k_upload", "Failed to download render")

\* await storage.upload(resultBlobId, nodeStream)
KineticUpload(a) == job.kind = "kinetic" /\ Upload(a, "k_upload", "k_finalize")

(***************************************************************************)
(* finalizeProjectSuccess                                                  *)
(***************************************************************************)
\* if (!updated) return;
AfterProjectUpdate(applied) == IF applied THEN "k_info" ELSE "ok"

\* const updated = await db.finalizeProjectOnlyIfNotCompleted(projectId, resultBlobId)
FinalizeProject(a) ==
    /\ pc[a] = "k_finalize"
    /\ \/ LET res == finalizeProjectOnlyIfNotCompleted(project, resultBlobId)
              applied == res.rowCount > 0 IN
          /\ project' = res.row
          /\ mediaFinalized' = Set(mediaFinalized, a, IF applied THEN "true" ELSE "false")
          /\ effects' = IF applied THEN AddEffect(a, "project") ELSE effects
          /\ pc' = Set(pc, a, AfterProjectUpdate(applied))
          /\ err' = err
       \/ /\ Throw(a, "db error")
          /\ UNCHANGED <<project, mediaFinalized, effects>>
    /\ UNCHANGED <<job, step, media, balance, ledger, emails, stored, thrown,
                   stepUpdated, currentBalance, rejected>>

\* const projectInfo = await db.getProjectInfo(projectId);
\* if (!projectInfo || !projectInfo.user_id) return;
GetProjectInfo(a) ==
    /\ pc[a] = "k_info"
    /\ \/ /\ pc' = Set(pc, a, IF hasUserId THEN "credit_select" ELSE "ok")
          /\ err' = err
       \/ Throw(a, "db error")
    /\ UNCHANGED <<job, dbVars, thrown, stepUpdated, mediaFinalized,
                   currentBalance, effects, rejected>>

\* catch of kineticWorker: try { await db.updateProjectStatus(projectId, 'failed', msg) }
\* catch (dbErr) { log }  throw error;
MarkProjectFailed(a) ==
    /\ pc[a] = "catch"
    /\ job.kind = "kinetic"
    /\ \/ /\ project' = updateProjectStatus(project, "failed", err[a])
          /\ effects' = AddEffect(a, "project_failed")
          /\ rejected' = rejected
       \/ /\ rejected' = [rejected EXCEPT ![a] = @ \cup {"record"}]
          /\ UNCHANGED <<project, effects>>
    /\ thrown' = Set(thrown, a, "error")
    /\ pc' = Set(pc, a, "failed")
    /\ err' = Set(err, a, "none")
    /\ UNCHANGED <<job, step, media, balance, ledger, emails, stored,
                   stepUpdated, mediaFinalized, currentBalance>>

(***************************************************************************)
(* runVideoToolsJob                                                        *)
(***************************************************************************)
\* await storage.downloadToFile(inputBlobId, inputPath); the 100MB size check
VideoToolsDownload(a) ==
    job.kind = "video-tools" /\ Stage(a, "v_download", "v_ffmpeg", "download failed")

\* await runFfmpegWithTimeout(args, FFMPEG_TIMEOUT_MS)
VideoToolsFfmpeg(a) ==
    job.kind = "video-tools" /\ Stage(a, "v_ffmpeg", "v_upload", "ffmpeg failed")

\* await storage.upload(resultBlobId, stream, 'video/mp4')
VideoToolsUpload(a) == job.kind = "video-tools" /\ Upload(a, "v_upload", "v_finalize")

\* const updated = await db.finalizeProjectOnlyIfNotCompleted(projectId, resultBlobId);
\* the job resolves whether or not the update applied
VideoToolsFinalize(a) ==
    /\ pc[a] = "v_finalize"
    /\ \/ LET res == finalizeProjectOnlyIfNotCompleted(project, resultBlobId)
              applied == res.rowCount > 0 IN
          /\ project' = res.row
          /\ mediaFinalized' = Set(mediaFinalized, a, IF applied THEN "true" ELSE "false")
          /\ effects' = IF applied THEN AddEffect(a, "project") ELSE effects
          /\ pc' = Set(pc, a, "ok")
          /\ err' = err
       \/ /\ Throw(a, "db error")
          /\ UNCHANGED <<project, mediaFinalized, effects>>
    /\ UNCHANGED <<job, step, media, balance, ledger, emails, stored, thrown,
                   stepUpdated, currentBalance, rejected>>

\* catch (error) { await db.updateProjectStatus(projectId, 'failed', msg); throw error; }
\* the failure write is awaited outside any try: its rejection leaves the catch block
VideoToolsCatch(a) ==
    /\ pc[a] = "catch"
    /\ job.kind = "video-tools"
    /\ \/ /\ project' = updateProjectStatus(project, "failed", err[a])
          /\ effects' = AddEffect(a, "project_failed")
          /\ thrown' = Set(thrown, a, "error")
          /\ rejected' = rejected
       \/ /\ rejected' = [rejected EXCEPT ![a] = @ \cup {"record"}]
          /\ thrown' = Set(thrown, a, "dbErr")
          /\ UNCHANGED <<project, effects>>
    /\ pc' = Set(pc, a, "failed")
    /\ err' = Set(err, a, "none")
    /\ UNCHANGED <<job, step, media, balance, ledger, emails, stored,
                   stepUpdated, mediaFinalized, currentBalance>>

(***************************************************************************)
(* Project job (kinetic typography or video tools): every interleaving of  *)
(* the attempts of one job                                                 *)
(***************************************************************************)
\* projects.credit_cost ?? 0
CreditCosts == 0..MaxBalance

ProjectJobs ==
    {j \in [kind : {"kinetic", "video-tools"}, userCase : {"nouser", "norow", "full"},
            duration : {""}, hasProject : {TRUE}, credit_cost : CreditCosts,
            balance : 0..MaxBalance] :
        /\ j.userCase \in {"nouser", "norow"} => j.credit_cost = 1 /\ j.balance = 0
        /\ j.kind = "video-tools" => j.userCase = "full" /\ j.credit_cost = 1
                                     /\ j.balance = MaxBalance}

InitProject ==
    /\ job \in ProjectJobs
    /\ InitRows
    /\ InitAttempts
    /\ PollIdle
    /\ FsIdle
    /\ CallIdle

KineticWorker(a) ==
    \/ KineticSubmit(a)
    \/ KineticPoll(a)
    \/ KineticFetch(a)
    \/ KineticUpload(a)

finalizeProjectSuccess(a) ==
    \/ FinalizeProject(a)
    \/ GetProjectInfo(a)

runVideoToolsJob(a) ==
    \/ VideoToolsDownload(a)
    \/ VideoToolsFfmpeg(a)
    \/ VideoToolsUpload(a)
    \/ VideoToolsFinalize(a)
    \/ VideoToolsCatch(a)

NextProject ==
    /\ \E a \in Attempts :
          \/ Deliver(a)
          \/ KineticWorker(a)
          \/ finalizeProjectSuccess(a)
          \/ deductCredits(a)
          \/ MarkProjectFailed(a)
          \/ runVideoToolsJob(a)
          \/ Crash(a)
    /\ UNCHANGED <<pollVars, callVars, fsVars>>

SpecProject == InitProject /\ [][NextProject]_vars

(***************************************************************************)
(* The poll loop of runRemotionRender, runStockVideoRemotionRender (same   *)
(* text) and runKineticRemotionRender, with its clock                      *)
(***************************************************************************)
\* REMOTION_POLL_TIMEOUT_MS / REMOTION_POLL_INTERVAL_MS = 400 sleeps of the loop, scaled down
PollTimeoutTicks == 2
\* the renders start within the first ClockSlack ticks; no deadline is later than MaxClock
ClockSlack == 1
MaxClock == PollTimeoutTicks + ClockSlack

\* The records getRenderProgress resolves with: done with or without an output key
\* (outKey, or an outputFile that is not a URL), a fatal error with or without the
\* optional errorMessage and errors[0].message, or still rendering.  "" and <<>>
\* stand for an absent field.  The service reports a fatal error on a render
\* that is not done.
ProgressRecords ==
    {r \in [done : BOOLEAN, objectKey : BOOLEAN, fatalErrorEncountered : BOOLEAN,
            errorMessage : {"", "lambda timed out"},
            errors : {<<>>, <<"chromium crashed">>}] :
        /\ ~(r.done /\ r.fatalErrorEncountered)
        /\ r.objectKey => r.done
        /\ (r.errorMessage # "" \/ r.errors # <<>>) => r.fatalErrorEncountered}

\* errMsg of the fatal branch.  remotion, stock video: progress.errorMessage || 'Remotion
\* render failed'; kinetic: errors[0]?.message ?? progress.errorMessage ?? 'Kinetic render failed'
fatalMessage(r) ==
    IF job.kind = "kinetic"
    THEN IF r.errors # <<>> THEN r.errors[1]
         ELSE IF r.errorMessage # "" THEN r.errorMessage ELSE "Kinetic render failed"
    ELSE IF r.errorMessage # "" THEN r.errorMessage ELSE "Remotion render failed"

InLoop(a) == pc[a] \in {"p_check", "p_wait", "p_sleep"}

\* const { renderId, bucketName } = await renderMediaOnLambda(...);
\* const deadline = Date.now() + REMOTION_POLL_TIMEOUT_MS
PollSubmit(a) ==
    /\ pc[a] \in {"submit", "k_submit"}
    /\ \/ /\ now + PollTimeoutTicks <= MaxClock
          /\ deadline' = Set(deadline, a, now + PollTimeoutTicks)
          /\ pc' = Set(pc, a, "p_check")
          /\ err' = err
       \/ /\ Throw(a, "lambda invoke failed")
          /\ deadline' = deadline
    /\ UNCHANGED <<job, dbVars, thrown, stepUpdated, mediaFinalized, currentBalance,
                   effects, rejected, now, progress, callVars, fsVars>>

\* while (Date.now() < deadline)
DeadlineNotPassed_Inclusive(a) == now <= deadline[a]
DeadlineNotPassed(a) == now < deadline[a]

\* the loop condition: the body starts with the call of getRenderProgress, or the
\* loop is left and the timeout error thrown
PollCheck(a) ==
    /\ pc[a] = "p_check"
    /\ IF DeadlineNotPassed(a)
       THEN pc' = Set(pc, a, "p_wait") /\ err' = err
       ELSE Throw(a, "render timeout")
    /\ UNCHANGED <<job, dbVars, thrown, stepUpdated, mediaFinalized, currentBalance,
                   effects, rejected, pollVars, callVars, fsVars>>

\* where the loop body goes with the record r
AfterProgress(r) ==
    IF r.done
    THEN IF r.objectKey
         THEN (IF job.kind = "kinetic" THEN "k_fetch" ELSE "fetch")
         ELSE "no output key"
    ELSE IF r.fatalErrorEncountered THEN fatalMessage(r) ELSE "p_sleep"

\* const progress = await getRenderProgress(...); if (progress.done) {...}
\* if (progress.fatalErrorEncountered) {... throw new Error(errMsg)}
PollResponse(a) ==
    /\ pc[a] = "p_wait"
    /\ \/ \E r \in ProgressRecords :
             /\ progress' = Set(progress, a, r)
             /\ IF AfterProgress(r) \in {"p_sleep", "fetch", "k_fetch"}
                THEN pc' = Set(pc, a, AfterProgress(r)) /\ err' = err
                ELSE Throw(a, AfterProgress(r))
       \/ /\ Throw(a, "getRenderProgress failed")
          /\ progress' = progress
    /\ UNCHANGED <<job, dbVars, thrown, stepUpdated, mediaFinalized, currentBalance,
                   effects, rejected, now, deadline, callVars, fsVars>>

\* await new Promise((r) => setTimeout(r, REMOTION_POLL_INTERVAL_MS)): at least one
\* interval has passed when the timer fires (at MaxClock every deadline has passed)
PollSleep(a) ==
    /\ pc[a] = "p_sleep"
    /\ now' = IF now < MaxClock THEN now + 1 ELSE now
    /\ pc' = Set(pc, a, "p_check")
    /\ UNCHANGED <<job, dbVars, err, thrown, stepUpdated, mediaFinalized, currentBalance,
                   effects, rejected, deadline, progress, callVars, fsVars>>

\* time passes while a handler is suspended
Tick ==
    /\ now < MaxClock
    /\ now' = now + 1
    /\ UNCHANGED <<job, dbVars, attemptVars, deadline, progress, callVars, fsVars>>

PollJobs ==
    {j \in [kind : {"remotion", "kinetic"}, userCase : {"nouser", "full"}, duration : {""},
            hasProject : {TRUE}, credit_cost : {1}, balance : {MaxBalance}] : TRUE}

InitPoll ==
    /\ job \in PollJobs
    /\ InitRows
    /\ InitAttempts
    /\ PollIdle
    /\ FsIdle
    /\ CallIdle

\* the handler of remotionWorker / kineticWorker around the poll loop
AfterLoop(a) ==
    \/ job.kind = "remotion" /\ (RemotionFetch(a) \/ RemotionUpload(a))
    \/ job.kind = "remotion" /\ (finalizeRenderSuccess(a) \/ MarkStepFailed(a))
    \/ job.kind = "kinetic" /\ (KineticFetch(a) \/ KineticUpload(a))
    \/ job.kind = "kinetic" /\ (finalizeProjectSuccess(a) \/ MarkProjectFailed(a))
    \/ deductCredits(a)

PollLoop(a) ==
    \/ PollSubmit(a)
    \/ PollCheck(a)
    \/ PollResponse(a)
    \/ PollSleep(a)

\* one invocation of the client: the first delivery of the job
PollAttempts == {1}

NextPoll ==
    \/ /\ \E a \in PollAttempts : Deliver(a) \/ AfterLoop(a)
       /\ UNCHANGED <<pollVars, callVars, fsVars>>
    \/ \E a \in PollAttempts : PollLoop(a)
    \/ Tick

SpecPoll == InitPoll /\ [][NextPoll]_vars

\* an await that can settle does settle, and a timer that was set fires
SpecPollFair ==
    /\ InitPoll
    /\ [][NextPoll]_vars
    /\ \A a \in PollAttempts : WF_vars(PollLoop(a))

(***************************************************************************)
(* Scratch directories: workDir of the render-tasks handler, of            *)
(* runVideoToolsJob and of the pacing block of runRemotionRender           *)
(***************************************************************************)
\* join(tmpdir(), `render-${job.id}`), join(tmpdir(), `video-tools-${projectId}`),
\* join(tmpdir(), `remotion-pacing-${mediaId}-${randomUUID()}`): the job id, the
\* project id and the media id are those of the payload, the same for every
\* attempt of a job; a is the UUID drawn by attempt a.
WorkDirName(a) ==
    CASE job.kind = "render" -> <<"render", "job.id">>
      [] job.kind = "video-tools" -> <<"video-tools", "projectId">>
      [] OTHER -> <<"remotion-pacing", "mediaId", a>>

PacePcs == {"pace_download", "pace_beats"}

\* the stages that read and write files of the work directory
UsingDir(a) ==
    pc[a] \in {"download", "process", "upload", "v_download", "v_ffmpeg", "v_upload"} \cup PacePcs

\* finally { try { if (existsSync(workDir)) rmSync(workDir, {recursive, force}) } catch { log } }
\* of attempt a: fs is the state of the finally block after it, own the outcome
\* the try/catch blocks produced
CleanupOutcome_Rethrow(own, rmThrew) == IF rmThrew THEN "cleanupErr" ELSE own
CleanupOutcome(own, rmThrew) == own

RemoveWorkDir(a, own) ==
    \/ /\ workDir[a] \in dirs
       /\ dirs' = dirs \ {workDir[a]}
       /\ cleanup' = Set(cleanup, a, "removed")
       /\ outcome' = Set(outcome, a, CleanupOutcome(own, FALSE))
    \/ /\ workDir[a] \in dirs
       /\ dirs' = dirs
       /\ cleanup' = Set(cleanup, a, "failed")
       /\ outcome' = Set(outcome, a, CleanupOutcome(own, TRUE))
    \/ /\ workDir[a] \notin dirs
       /\ dirs' = dirs
       /\ cleanup' = Set(cleanup, a, "absent")
       /\ outcome' = Set(outcome, a, CleanupOutcome(own, FALSE))

\* the handler starts: workDir is computed and created before the first await.
\* render-tasks: if (!existsSync(workDir)) mkdirSync(...) inside the try; video
\* tools: the same before the try; remotion: in the pacing block, which only the
\* beat-synced path enters.
ScratchDeliver(a) ==
    /\ pc[a] = "idle"
    /\ IF a = 1 THEN TRUE ELSE pc[a - 1] # "idle"
    /\ \/ /\ dirs' = dirs \cup {WorkDirName(a)}
          /\ workDir' = Set(workDir, a, WorkDirName(a))
          /\ pc' = Set(pc, a, IF job.kind = "remotion" THEN "pace_download" ELSE FirstStage)
          /\ UNCHANGED <<err, thrown, outcome>>
       \/ /\ job.kind = "remotion"
          /\ pc' = Set(pc, a, "submit")
          /\ UNCHANGED <<dirs, workDir, err, thrown, outcome>>
       \/ /\ WorkDirName(a) \notin dirs
          /\ job.kind \in {"render", "remotion"}
          /\ Throw(a, "mkdir failed")
          /\ workDir' = Set(workDir, a, WorkDirName(a))
          /\ UNCHANGED <<dirs, thrown, outcome>>
       \/ /\ WorkDirName(a) \notin dirs
          /\ job.kind = "video-tools"
          /\ pc' = Set(pc, a, "failed")
          /\ thrown' = Set(thrown, a, "error")
          /\ outcome' = Set(outcome, a, "error")
          /\ UNCHANGED <<dirs, workDir, err>>
    /\ UNCHANGED <<job, dbVars, stepUpdated, mediaFinalized, currentBalance, effects,
                   rejected, cleanup, pollVars, callVars>>

\* the pacing block: try { downloadToFile(audio); runBeatSync; buildScenes }
\* finally { try { rmSync(workDir) } catch { ignore } }
PaceStage(a, at, next, msg) ==
    /\ pc[a] = at
    /\ job.kind = "remotion"
    /\ \/ /\ pc' = Set(pc, a, next)
          /\ err' = err
       \/ Throw(a, msg)
    /\ IF pc'[a] \in PacePcs
       THEN UNCHANGED <<dirs, cleanup, outcome>>
       ELSE RemoveWorkDir(a, outcome[a])
    /\ UNCHANGED <<job, dbVars, thrown, stepUpdated, mediaFinalized, currentBalance,
                   effects, rejected, workDir, pollVars, callVars>>

PaceDownload(a) == PaceStage(a, "pace_download", "pace_beats", "download failed")
PaceBeatSync(a) == PaceStage(a, "pace_beats", "submit", "ffprobe failed")

\* the await of the handler at which its promise settles
HandlerSettles(a) == pc[a] \notin {"idle", "ok", "failed"} /\ pc'[a] \in {"ok", "failed"}

\* the finally block of the render-tasks handler and of runVideoToolsJob runs when
\* the try or the catch block is left; remotionWorker has none
Finally(a) ==
    /\ IF HandlerSettles(a)
       THEN LET own == IF pc'[a] = "ok" THEN "resolved" ELSE thrown'[a] IN
            IF job.kind \in {"render", "video-tools"}
            THEN RemoveWorkDir(a, own)
            ELSE /\ outcome' = Set(outcome, a, own)
                 /\ UNCHANGED <<dirs, cleanup>>
       ELSE UNCHANGED <<dirs, cleanup, outcome>>
    /\ workDir' = workDir

ScratchAttempt(a) ==
    \/ MediaAttempt(a) /\ Finally(a)
    \/ runVideoToolsJob(a) /\ Finally(a)

ScratchJobs ==
    {j \in [kind : {"render", "remotion", "video-tools"}, userCase : {"full"},
            duration : {""}, hasProject : {TRUE}, credit_cost : {1},
            balance : {MaxBalance}] : TRUE}

InitScratch ==
    /\ job \in ScratchJobs
    /\ InitRows
    /\ InitAttempts
    /\ PollIdle
    /\ FsIdle
    /\ CallIdle

NextScratch ==
    \/ \E a \in Attempts : ScratchDeliver(a)
    \/ \E a \in Attempts : PaceDownload(a) \/ PaceBeatSync(a)
    \/ /\ \E a \in Attempts : ScratchAttempt(a)
       /\ UNCHANGED <<pollVars, callVars>>

SpecScratch == InitScratch /\ [][NextScratch]_vars

(***************************************************************************)
(* Calls of the pure functions of the pipeline: the arguments are drawn    *)
(* when the call is made, the function is applied when it returns          *)
(***************************************************************************)
workerVars == <<job, dbVars, attemptVars, pollVars, fsVars>>

\* no job is queued while a function is studied on its own
NoJob == [kind |-> "render", userCase |-> "nouser", duration |-> "", hasProject |-> FALSE,
          credit_cost |-> 0, balance |-> 0]

InitCall(calls) ==
    /\ job = NoJob
    /\ InitRows
    /\ InitAttempts
    /\ PollIdle
    /\ FsIdle
    /\ call \in calls
    /\ result = <<>>

\* the call of function fn returns value
Return(fn, value) ==
    /\ call.fn = fn
    /\ result = <<>>
    /\ result' = <<value>>
    /\ UNCHANGED <<call, workerVars>>

(***************************************************************************)
(* Choice of the queue, as the README states the orchestrator's branch     *)
(* (handleRenderStep, whose code is in the backend)                        *)
(***************************************************************************)
\* input_config.duration as the orchestrator may find it
DurationValues == Durations \cup {"15-30", "30-60 ", "120-180", "60"}
\* process.env.REMOTION_QUEUE_ENABLED ("unset": the variable is not defined)
FlagValues == {"unset", "", "true", "false", "1", "0", "TRUE", "FALSE"}

\* REMOTION_QUEUE_ENABLED !== 'false'
remotionEnabled_OptIn(flag) == flag = "true"
remotionEnabled(flag) == flag # "false"

\* If input_config.duration === '30-60' and REMOTION_QUEUE_ENABLED !== 'false' the job
\* is queued to remotion-render-tasks, otherwise to render-tasks
handleRenderStep(duration, flag) ==
    IF duration = "30-60" /\ remotionEnabled(flag)
    THEN "remotion-render-tasks"
    ELSE "render-tasks"

StrategyCalls ==
    [fn : {"handleRenderStep"}, duration : DurationValues, flag : FlagValues]

ChooseQueue == Return("handleRenderStep", handleRenderStep(call.duration, call.flag))

SpecStrategy == InitCall(StrategyCalls) /\ [][ChooseQueue]_vars

(***************************************************************************)
(* Scene building (PacingEngine.buildScenes).  The image urls are opaque:  *)
(* a call carries their number, a scene its duration and its image index   *)
(***************************************************************************)
FPS == 30
MIN_DURATION_FRAMES == 30 * FPS
MAX_ALLOWED_FRAMES == 60 * FPS
\* the largest imageUrls.length of a call
MaxImages == 8

Max(a, b) == IF a >= b THEN a ELSE b
Min(a, b) == IF a <= b THEN a ELSE b

\* transitionOverlapByStyle
PacingStyles == {"smooth", "rhythmic", "viral", "dramatic"}
transitionOverlapByStyle ==
    [s \in PacingStyles |->
        CASE s = "smooth" -> 20
          [] s = "rhythmic" -> 16
          [] s = "viral" -> 12
          [] s = "dramatic" -> 16]

\* Math.floor((totalDurationInFrames + (imageCount - 1) * transitionOverlapFrames) / imageCount)
seqDuration_Ceil(total, imageCount, overlap) ==
    (total + (imageCount - 1) * overlap + imageCount - 1) \div imageCount
seqDuration_NoOverlap(total, imageCount, overlap) == total \div imageCount
seqDuration(total, imageCount, overlap) ==
    (total + (imageCount - 1) * overlap) \div imageCount

\* [0, ...cutFrames.slice().sort((a, b) => a - b), totalDurationInFrames]
boundaries(cutFrames, total) ==
    <<0>> \o SortSeq(cutFrames, LAMBDA x, y : x < y) \o <<total>>

\* segments[i] = Math.max(1, boundaries[i + 1] - boundaries[i])
segments(bs) == [i \in 1..(Len(bs) - 1) |-> Max(1, bs[i + 1] - bs[i])]

\* the URLs of a call are numbered 1..imageUrls.length; 0 stands for the empty
\* string of `imageUrls.length > 0 ? imageUrls : ['']`
urlsOf_TwoPlaceholders(imageUrlsLength) ==
    IF imageUrlsLength > 0 THEN [i \in 1..imageUrlsLength |-> i] ELSE <<0, 0>>
urlsOf(imageUrlsLength) ==
    IF imageUrlsLength > 0 THEN [i \in 1..imageUrlsLength |-> i] ELSE <<0>>

\* const imageIndex = i % imageCount (i counted from 0)
imageIndexOf_Clamped(i, imageCount) == Min(i, imageCount - 1)
imageIndexOf(i, imageCount) == i % imageCount

buildScenes(imageUrlsLength, total, cutFrames, overlap) ==
    LET imageCount == Max(1, imageUrlsLength)
        urls == urlsOf(imageUrlsLength)
    IN  IF Len(cutFrames) = 0
        THEN [i \in 1..Len(urls) |->
                 [durationInFrames |-> seqDuration(total, imageCount, overlap),
                  imageUrl |-> urls[i],
                  imageIndex |-> i - 1]]
        ELSE LET segs == segments(boundaries(cutFrames, total))
                 scenes == [i \in 1..Len(segs) |->
                               [durationInFrames |-> segs[i],
                                imageUrl |-> urls[imageIndexOf(i - 1, imageCount) + 1],
                                imageIndex |-> imageIndexOf(i - 1, imageCount)]]
                 extendBy == (imageCount - Len(scenes)) * (total \div imageCount)
             IN  IF Len(scenes) < imageCount
                 THEN [scenes EXCEPT ![Len(scenes)].durationInFrames = @ + extendBy]
                 ELSE scenes

RECURSIVE SumDurations(_)
SumDurations(scenes) ==
    IF scenes = <<>> THEN 0
    ELSE scenes[1].durationInFrames + SumDurations(Tail(scenes))

\* the overlaps of the four pacing styles, and the smallest two a caller could pass
OverlapValues == {0, 1} \cup {transitionOverlapByStyle[s] : s \in PacingStyles}
\* cut lists a caller may pass: one not sorted, one with a duplicate, one with a
\* value beyond the longest total
CutLists == {<<450>>, <<600, 300>>, <<200, 400, 600>>, <<300, 300>>, <<2000, 100>>}

BuildScenesCalls ==
    [fn : {"buildScenes"}, images : 0..MaxImages,
     total : MIN_DURATION_FRAMES..MAX_ALLOWED_FRAMES,
     cutFrames : {<<>>}, overlap : OverlapValues]
    \cup
    [fn : {"buildScenes"}, images : 0..MaxImages,
     total : {MIN_DURATION_FRAMES, MAX_ALLOWED_FRAMES},
     cutFrames : CutLists, overlap : {transitionOverlapByStyle["viral"]}]

BuildScenes ==
    Return("buildScenes",
           buildScenes(call.images, call.total, call.cutFrames, call.overlap))

SpecScenes == InitCall(BuildScenesCalls) /\ [][BuildScenes]_vars

(***************************************************************************)
(* Beat sync (runBeatSync).  Times are in hundredths of a second, so that  *)
(* the seconds of the code (0.5, 0.55, 0.6, 0.65, a probed duration) are   *)
(* integers and Math.round is computed exactly                             *)
(***************************************************************************)
\* hundredths in a second
Cs == 100
\* the longest audio of a call, in hundredths of a second
MaxAudioCs == 9100
DURATION_FALLBACK_SEC == 45
CAPTION_DURATION_BUFFER_SEC == 1
DEFAULT_PERIOD == 4
MIN_STRONG_BEAT_INTERVAL_FRAMES == 60
MIN_PERIOD == 2

\* Math.round(t * fps) of a time t >= 0 given in hundredths of a second
frameOf(tCs) == (tCs * FPS + Cs \div 2) \div Cs

\* Math.max(MIN_DURATION_FRAMES, Math.min(MAX_ALLOWED_FRAMES, frames))
clampFrames_NoFloor(frames) == Min(MAX_ALLOWED_FRAMES, frames)
clampFrames(frames) == Max(MIN_DURATION_FRAMES, Min(MAX_ALLOWED_FRAMES, frames))

\* getAudioDurationSec: the duration ffprobe prints, 0 when ffprobe fails or prints
\* no number > 0
getAudioDurationSec(audioCs, probe) == IF probe = "ok" /\ audioCs > 0 THEN audioCs ELSE 0

\* extractBeats: the beats aubio finds (one every gapCs, inside the audio), none
\* when aubio is missing or fails
extractBeats(audioCs, gapCs) ==
    IF gapCs = 0 THEN <<>>
    ELSE [i \in 1..((audioCs - 1) \div gapCs) |-> i * gapCs]

\* extractBeatsFallback: a grid from 0 while t < sec
extractBeatsFallback(audioDurationCs) ==
    LET sec == Max(1 * Cs, audioDurationCs)
        interval == IF sec < 20 * Cs THEN 50
                    ELSE IF sec < 45 * Cs THEN 55
                    ELSE IF sec < 90 * Cs THEN 60
                    ELSE 65
    IN  [i \in 1..((sec + interval - 1) \div interval) |-> (i - 1) * interval]

\* [...gaps].sort((a, b) => a - b)[Math.floor(gaps.length / 2)] ?? 0
medianGap(beatFrames) ==
    LET gaps == [i \in 1..(Len(beatFrames) - 1) |-> beatFrames[i + 1] - beatFrames[i]]
        sorted == SortSeq(gaps, LAMBDA x, y : x < y)
    IN  IF Len(gaps) > 0 THEN sorted[(Len(gaps) \div 2) + 1] ELSE 0

\* the period before the density check
nominalPeriod(pacingStyle) ==
    IF pacingStyle = "dramatic" THEN 2
    ELSE IF pacingStyle \in {"rhythmic", "viral"} THEN 4
    ELSE DEFAULT_PERIOD

\* strongBeatInterval > MIN_STRONG_BEAT_INTERVAL_FRAMES && period > MIN_PERIOD
sparse_Inclusive(period, gap) ==
    period * gap >= MIN_STRONG_BEAT_INTERVAL_FRAMES /\ period > MIN_PERIOD
sparse(period, gap) ==
    period * gap > MIN_STRONG_BEAT_INTERVAL_FRAMES /\ period > MIN_PERIOD

detectStrongBeats(beatFrames, pacingStyle) ==
    LET nominal == nominalPeriod(pacingStyle)
        period == IF sparse(nominal, medianGap(beatFrames)) THEN MIN_PERIOD ELSE nominal
    IN  IF Len(beatFrames) < nominal THEN <<>>
        ELSE [i \in 1..(Len(beatFrames) \div period) |-> beatFrames[i * period]]

\* generateCutPoints(_params) { return []; }
generateCutPoints_StrongBeats(beatFrames, strongBeatFrames, pacingStyle, imageCount) ==
    strongBeatFrames
generateCutPoints(beatFrames, strongBeatFrames, pacingStyle, imageCount) == <<>>

runBeatSync(audioCs, probe, aubioGapCs, pacingStyle, imageCount) ==
    LET probed == getAudioDurationSec(audioCs, probe)
        durationSec == IF probed <= 0 THEN DURATION_FALLBACK_SEC * Cs ELSE probed
        totalDurationInFrames == clampFrames(frameOf(durationSec))
        found == extractBeats(audioCs, aubioGapCs)
        beatTimesSec == IF Len(found) = 0 THEN extractBeatsFallback(durationSec) ELSE found
        beatFrames == [i \in 1..Len(beatTimesSec) |-> frameOf(beatTimesSec[i])]
    IN  IF pacingStyle = "smooth"
        THEN [beatFrames |-> <<>>, strongBeatFrames |-> <<>>, cutFrames |-> <<>>,
              totalDurationInFrames |-> totalDurationInFrames]
        ELSE [beatFrames |-> beatFrames,
              strongBeatFrames |-> detectStrongBeats(beatFrames, pacingStyle),
              cutFrames |-> generateCutPoints(beatFrames,
                                              detectStrongBeats(beatFrames, pacingStyle),
                                              pacingStyle, imageCount),
              totalDurationInFrames |-> totalDurationInFrames]

\* smooth pacing with captions: Math.max(...captionEntries.map((e) => e.end)) + 1
\* second, rounded to frames and clamped
captionDuration(maxEndCs) ==
    clampFrames(frameOf(maxEndCs + CAPTION_DURATION_BUFFER_SEC * Cs))

\* aubio: missing (0), or a beat every 0.5 s or every 1 s
AubioGaps == {0, 50, 100}

BeatSyncCalls ==
    [fn : {"runBeatSync"}, audioCs : 1..MaxAudioCs, probe : {"ok", "failed"},
     aubioGapCs : AubioGaps, pacingStyle : PacingStyles, imageCount : {MaxImages}]
CaptionCalls == [fn : {"captionDuration"}, maxEndCs : 0..MaxAudioCs]

RunBeatSync ==
    Return("runBeatSync",
           runBeatSync(call.audioCs, call.probe, call.aubioGapCs, call.pacingStyle,
                       call.imageCount))
CaptionDuration == Return("captionDuration", captionDuration(call.maxEndCs))

SpecBeatSync ==
    InitCall(BeatSyncCalls \cup CaptionCalls) /\ [][RunBeatSync \/ CaptionDuration]_vars

(***************************************************************************)
(* detectStrongBeats called on its own, on beat lists built from the gaps  *)
(* between consecutive beats                                               *)
(***************************************************************************)
\* the most beats of a call
MaxBeats == 7
\* gaps in frames: 4 * 15 is the interval of 60 frames, 4 * 16 is above it, and
\* 2 * 45 is above it too
BeatGaps == {0, 15, 16, 45}

RECURSIVE SumSeq(_)
SumSeq(s) == IF s = <<>> THEN 0 ELSE s[1] + SumSeq(Tail(s))

\* the beats at frame 0 and after each gap
FromGaps(gaps) == [i \in 1..(Len(gaps) + 1) |-> SumSeq(SubSeq(gaps, 1, i - 1))]

BeatFrameLists ==
    {<<>>} \cup {FromGaps(g) : g \in UNION {[1..k -> BeatGaps] : k \in 0..(MaxBeats - 1)}}

\* options.pacingStyle, which may be left out
DetectCalls ==
    [fn : {"detectStrongBeats"}, beatFrames : BeatFrameLists,
     pacingStyle : PacingStyles \cup {"unspecified"}]

DetectStrongBeats ==
    Return("detectStrongBeats", detectStrongBeats(call.beatFrames, call.pacingStyle))

SpecStrongBeats == InitCall(DetectCalls) /\ [][DetectStrongBeats]_vars

(***************************************************************************)
(* Karaoke tags of a cue (AssGenerator.generate).  Times are in            *)
(* milliseconds, the precision of the caption files; a \k value is in      *)
(* centiseconds                                                            *)
(***************************************************************************)
\* the most words of a cue
MaxWords == 3
\* the length of the longest cue, in steps of 4 ms (no word then lasts a whole number
\* of centiseconds and a half)
MaxTicks == 10
TickMs(k) == 4 * k

\* Math.round(duration * 100) of a duration >= 0 given in milliseconds
roundCs_Floor(durationMs) == durationMs \div 10
roundCs(durationMs) == (durationMs + 5) \div 10

\* the \k values of the words of a cue, in order: each word gets the time from the
\* end of the previous word (from cap.start for the first) to its own end, not
\* below 0, rounded to centiseconds
RECURSIVE karaokeTags(_, _)
karaokeTags(words, cursorTime) ==
    IF words = <<>> THEN <<>>
    ELSE LET w == words[1]
             duration == IF w.end - cursorTime < 0 THEN 0 ELSE w.end - cursorTime
         IN  <<roundCs(duration)>> \o karaokeTags(Tail(words), w.end)

\* the tags of one Dialogue line: none when the cue has no word timings
generate(cap) ==
    IF Len(cap.words) > 0 THEN karaokeTags(cap.words, cap.start) ELSE <<>>

\* the word timings of a cue that starts at start: consecutive words, each ending
\* later than the one before, given by the ticks at which they end
WordsAt(start, ticks) ==
    LET RECURSIVE build(_, _)
        build(from, rest) ==
            IF rest = {} THEN <<>>
            ELSE LET k == CHOOSE x \in rest : \A y \in rest : x <= y
                 IN  <<[start |-> from, end |-> start + TickMs(k)]>>
                         \o build(start + TickMs(k), rest \ {k})
    IN  build(start, ticks)

\* cues: a start, word ends inside the cue, and the end of the cue at or after the
\* end of the last word
Cues ==
    {[start |-> s, end |-> s + TickMs(e), words |-> WordsAt(s, ticks)] :
        s \in {0, 1000},
        e \in 1..MaxTicks,
        ticks \in {t \in SUBSET (1..MaxTicks) : Cardinality(t) <= MaxWords}}

\* word timings with clock skew: the words end at the given ticks in the order
\* given, so that a word may end before the one in front of it
WordsInOrder(start, ticks) ==
    [i \in 1..Len(ticks) |->
        [start |-> start + (IF i = 1 THEN 0 ELSE TickMs(Min(ticks[i - 1], ticks[i]))),
         end |-> start + TickMs(ticks[i])]]

\* cues of the longest length whose words end on whole centiseconds (ticks 5 and 10),
\* in any order
SkewedCues ==
    {[start |-> s, end |-> s + TickMs(MaxTicks), words |-> WordsInOrder(s, ticks)] :
        s \in {0, 1000},
        ticks \in UNION {[1..n -> {k \in 1..MaxTicks : k % 5 = 0}] : n \in 2..MaxWords}}

GenerateCalls ==
    {[fn |-> "generate", cap |-> c] :
        c \in {x \in Cues \cup SkewedCues :
                   \A i \in 1..Len(x.words) : x.words[i].end <= x.end}}

Generate == Return("generate", generate(call.cap))

SpecAss == InitCall(GenerateCalls) /\ [][Generate]_vars

(***************************************************************************)
(* Style and text of the generated ASS document.  A string is the tuple of *)
(* its characters; a Devanagari character is written by its code point     *)
(***************************************************************************)
UpperCase == <<"A", "B", "C", "D", "E", "F", "G", "H", "I", "J", "K", "L", "M",
               "N", "O", "P", "Q", "R", "S", "T", "U", "V", "W", "X", "Y", "Z">>
LowerCase == <<"a", "b", "c", "d", "e", "f", "g", "h", "i", "j", "k", "l", "m",
               "n", "o", "p", "q", "r", "s", "t", "u", "v", "w", "x", "y", "z">>
\* the /i flag: letters are compared without their case
toLower(c) ==
    IF \E i \in 1..Len(UpperCase) : UpperCase[i] = c
    THEN LowerCase[CHOOSE i \in 1..Len(UpperCase) : UpperCase[i] = c]
    ELSE c

\* an unanchored pattern matches when it occurs anywhere in the string
Matches(str, pattern) ==
    \E k \in 0..(Len(str) - Len(pattern)) :
        \A j \in 1..Len(pattern) : toLower(str[k + j]) = toLower(pattern[j])

\* Boolean(lang && /hindi|hi|<Hindi in Devanagari>/i.test(String(lang)))
HindiPatterns == {<<"h", "i", "n", "d", "i">>, <<"h", "i">>,
                  <<"U+0939", "U+093F", "U+0902", "U+0926", "U+0940">>}
\* the language argument left out
NoLanguage == <<"undefined">>
isHindiLanguage(lang) ==
    /\ lang # NoLanguage
    /\ lang # <<>>
    /\ \E p \in HindiPatterns : Matches(lang, p)

FONT_HINDI == "Noto Sans Devanagari"
FONT_DEFAULT == "Arial"

\* the Style line of the [V4+ Styles] section: always named Default, its colours and
\* outline chosen by the preset, its alignment and margin by the position
styleDef(preset, position, language) ==
    [Name |-> "Default",
     Fontname |-> IF isHindiLanguage(language) THEN FONT_HINDI ELSE FONT_DEFAULT,
     preset |-> IF preset \in {"bold-stroke", "red-highlight", "karaoke-card", "beast"}
                THEN preset ELSE "clean-minimal",
     Alignment |-> IF position = "top" THEN 8 ELSE IF position = "center" THEN 5 ELSE 2,
     MarginV |-> IF position = "top" THEN 100 ELSE IF position = "center" THEN 50 ELSE 150]

\* the text of the Dialogue line of a cue: every word as it is given, behind its \k
\* tag, or cap.text when the cue has no word timings
dialogueText(cap) ==
    IF Len(cap.words) > 0
    THEN [i \in 1..Len(cap.words) |-> [k |-> generate(cap)[i], text |-> cap.words[i].text]]
    ELSE <<[k |-> "none", text |-> cap.text]>>

\* AssGenerator.generate: the styles and the Dialogue lines of the document
assDocument(captions, preset, position, language) ==
    [styles |-> <<styleDef(preset, position, language)>>,
     events |-> [i \in 1..Len(captions) |-> dialogueText(captions[i])]]

\* language tags: none, empty, Hindi by name, by code and in Devanagari, and
\* languages that are not Hindi
HindiTags ==
    {<<"H", "i", "n", "d", "i">>, <<"h", "i", "n", "d", "i">>, <<"h", "i">>,
     <<"h", "i", "-", "I", "N">>, <<"U+0939", "U+093F", "U+0902", "U+0926", "U+0940">>}
OtherTags ==
    {NoLanguage, <<>>, <<"E", "n", "g", "l", "i", "s", "h">>, <<"e", "n">>,
     <<"S", "p", "a", "n", "i", "s", "h">>, <<"F", "r", "e", "n", "c", "h">>,
     <<"S", "w", "a", "h", "i", "l", "i">>, <<"C", "h", "i", "n", "e", "s", "e">>,
     <<"T", "a", "m", "i", "l">>}

\* the Hindi captions of the verification script (texts shortened): a cue of two
\* words, and a cue whose second word carries its transliteration in parentheses
sampleCaptions ==
    <<[start |-> 0, end |-> 2000,
       text |-> <<"U+0928", "U+092E", " ", "U+0926", "U+0941">>,
       words |-> <<[start |-> 0, end |-> 1000, text |-> <<"U+0928", "U+092E">>],
                   [start |-> 1000, end |-> 2000, text |-> <<"U+0926", "U+0941">>]>>]>>
mixedLanguageCaptions ==
    <<[start |-> 0, end |-> 3000,
       text |-> <<"U+090A", " ", "U+0907", " ", "(", "U", "n", "c", "h", "i", ")", ",",
                  " ", "U+0918">>,
       words |-> <<[start |-> 0, end |-> 1000, text |-> <<"U+090A">>],
                   [start |-> 1000, end |-> 2000,
                    text |-> <<"U+0907", " ", "(", "U", "n", "c", "h", "i", ")">>],
                   [start |-> 2000, end |-> 3000, text |-> <<"U+0918">>]>>]>>
\* the same text in a cue without word timings
plainCaptions ==
    <<[start |-> 0, end |-> 2000,
       text |-> <<"U+090A", " ", "U+0907", " ", "(", "U", "n", "c", "h", "i", ")">>,
       words |-> <<>>]>>

AssCalls ==
    [fn : {"assDocument"},
     captions : {sampleCaptions, mixedLanguageCaptions, plainCaptions},
     preset : {"bold-stroke", "red-highlight", "karaoke-card", "beast", "clean-minimal",
               "unknown"},
     position : {"top", "center", "bottom"},
     language : HindiTags \cup OtherTags]

AssDocument ==
    Return("assDocument",
           assDocument(call.captions, call.preset, call.position, call.language))

SpecAssDocument == InitCall(AssCalls) /\ [][AssDocument]_vars

(***************************************************************************)
(* Watermark of the remote renders, derived from payload.monetization.     *)
(* A field that is missing is "undefined"; enabled is "true" or "false"    *)
(***************************************************************************)
\* payload.monetization?.watermark
watermarkOf(payload) ==
    IF payload.monetization = "undefined" THEN "undefined" ELSE payload.watermark

\* Boolean(watermark?.enabled && watermark?.type === 'text' && watermark?.value)
deriveWatermarkEnabled_AnyType(payload) ==
    /\ watermarkOf(payload) # "undefined"
    /\ payload.enabled = "true"
    /\ payload.value \notin {"undefined", ""}
deriveWatermarkEnabled(payload) ==
    /\ watermarkOf(payload) # "undefined"
    /\ payload.enabled = "true"
    /\ payload.type = "text"
    /\ payload.value \notin {"undefined", ""}

\* watermark?.value ?? 'Made with AutoReels'
deriveWatermarkValue(payload) ==
    IF watermarkOf(payload) = "undefined" \/ payload.value = "undefined"
    THEN "Made with AutoReels"
    ELSE payload.value

\* inputProps.watermark of runKineticRemotionRender and runStockVideoRemotionRender
watermarkProps(payload) ==
    [enabled |-> deriveWatermarkEnabled(payload),
     type |-> "text",
     value |-> deriveWatermarkValue(payload)]

\* the payloads of the clients and of the test script
WatermarkCalls ==
    [fn : {"watermarkProps"},
     client : {"test-watermark", "runKineticRemotionRender", "runStockVideoRemotionRender"},
     monetization : {"undefined", "present"},
     watermark : {"undefined", "present"},
     enabled : {"true", "false", "undefined"},
     type : {"text", "image", "undefined"},
     value : {"undefined", "", "Made with AutoReels", "https://example.com/logo.png"}]

WatermarkProps == Return("watermarkProps", watermarkProps(call))

SpecWatermark == InitCall(WatermarkCalls) /\ [][WatermarkProps]_vars

(***************************************************************************)
(* The encoder subprocess of VideoProcessor.process and of                 *)
(* runFfmpegWithTimeout: the promise around spawn('ffmpeg').  call holds   *)
(* the state of the child, its stderr so far (in blocks of 250 characters) *)
(* and the timer; result is the settlement of the promise                  *)
(***************************************************************************)
\* the most stderr a child writes, in blocks of 250 characters
MaxStderr == 10
\* stderr.slice(-500) of runFfmpegWithTimeout, in blocks
TailBlocks == 2

EncodeFns == {"process", "runFfmpegWithTimeout"}
Encoding == call.fn \in EncodeFns

\* resolve() and reject(): only the first settles the promise
Settle(value) == result' = IF result = <<>> THEN <<value>> ELSE result

\* new Promise(...): the child is spawned; runFfmpegWithTimeout arms setTimeout
EncodeCalls ==
    {[fn |-> f, child |-> "running", stderr |-> 0,
      timer |-> IF f = "runFfmpegWithTimeout" THEN "armed" ELSE "none"] : f \in EncodeFns}

\* ffmpeg.stderr.on('data'): the chunk is appended
StderrData ==
    /\ Encoding
    /\ call.child = "running"
    /\ call.stderr < MaxStderr
    /\ call' = [call EXCEPT !.stderr = @ + 1]
    /\ UNCHANGED <<result, workerVars>>

\* the child stops making progress and will not exit by itself
ChildHangs ==
    /\ Encoding
    /\ call.child = "running"
    /\ call' = [call EXCEPT !.child = "hung"]
    /\ UNCHANGED <<result, workerVars>>

\* the rejection of a non-zero exit: process logs the last 2000 characters and
\* rejects with 'FFmpeg exited with code N. Check logs for details.';
\* runFfmpegWithTimeout rejects with `FFmpeg exited ${code}. ${stderr.slice(-500)}`
ExitError(fn, stderr) ==
    IF fn = "process"
    THEN [error |-> "exited", carriesTail |-> FALSE, tail |-> 0]
    ELSE [error |-> "exited", carriesTail |-> TRUE, tail |-> Min(stderr, TailBlocks)]

\* the 'close' handler without its clearTimeout
ChildClose_TimerLeftArmed(code) ==
    /\ Encoding
    /\ call.child = "running"
    /\ call' = [call EXCEPT !.child = "closed"]
    /\ Settle(IF code = 0 THEN [error |-> "none", carriesTail |-> FALSE, tail |-> 0]
              ELSE ExitError(call.fn, call.stderr))
    /\ UNCHANGED workerVars

\* ffmpeg.on('close', (code) => ...): clearTimeout, then resolve on code 0 and reject
\* otherwise
ChildClose(code) ==
    /\ Encoding
    /\ call.child = "running"
    /\ call' = [call EXCEPT !.child = "closed",
                            !.timer = IF @ = "armed" THEN "cleared" ELSE @]
    /\ Settle(IF code = 0 THEN [error |-> "none", carriesTail |-> FALSE, tail |-> 0]
              ELSE ExitError(call.fn, call.stderr))
    /\ UNCHANGED workerVars

\* ffmpeg.on('error', (err) => ...): the child could not be spawned; clearTimeout (in
\* runFfmpegWithTimeout) and reject(err)
SpawnError ==
    /\ Encoding
    /\ call.child = "running"
    /\ call.stderr = 0
    /\ call' = [call EXCEPT !.child = "failed",
                            !.timer = IF @ = "armed" THEN "cleared" ELSE @]
    /\ Settle([error |-> "spawn", carriesTail |-> FALSE, tail |-> 0])
    /\ UNCHANGED workerVars

\* the timer fires (it was not cleared): ffmpeg.kill('SIGKILL'), which does nothing
\* to a child that is gone, and
\* reject(new Error(`FFmpeg timeout after ${timeoutMs / 60000} minutes`))
TimerFires ==
    /\ Encoding
    /\ call.timer = "armed"
    /\ call' = [call EXCEPT !.child = IF @ \in {"running", "hung"} THEN "killed" ELSE @,
                            !.timer = "fired"]
    /\ Settle([error |-> "timeout", carriesTail |-> FALSE, tail |-> 0])
    /\ UNCHANGED workerVars

\* 'close' of the killed child (code null), or of the child that could not be
\* spawned, after its 'error': clearTimeout and a second reject, which changes nothing
KilledClose ==
    /\ Encoding
    /\ call.child \in {"killed", "failed"}
    /\ call' = [call EXCEPT !.child = "closed",
                            !.timer = IF @ = "armed" THEN "cleared" ELSE @]
    /\ Settle(ExitError(call.fn, call.stderr))
    /\ UNCHANGED workerVars

NextEncode ==
    \/ StderrData
    \/ ChildHangs
    \/ \E code \in {0, 1} : ChildClose(code)
    \/ SpawnError
    \/ TimerFires
    \/ KilledClose

\* a child that runs exits or hangs; a timer that is armed fires; events that are
\* due are delivered
SpecEncodeFair ==
    /\ InitCall(EncodeCalls)
    /\ [][NextEncode]_vars
    /\ WF_vars(ChildHangs \/ SpawnError \/ \E code \in {0, 1} : ChildClose(code))
    /\ WF_vars(TimerFires)
    /\ WF_vars(KilledClose)

(***************************************************************************)
(* Download of the rendered file after the remote render reports done:     *)
(* the fetch loop of runRemotionRender and runKineticRemotionRender, in    *)
(* the first delivery of a job.  call holds the locals of the loop: the    *)
(* number of fetches made and the status of the last response              *)
(***************************************************************************)
maxDownloadAttempts == 3
\* response.status: OK, not found (the object is not visible yet), forbidden, error
ResponseStatuses == {200, 404, 403, 500}

FetchLocals == [fn |-> "fetch", attempt |-> 0, status |-> 0]
AtFetch(a) == pc[a] \in {"fetch", "k_fetch"}

\* if (response.ok) break;
\* if (response.status === 404 && attempt < maxDownloadAttempts) {sleep} else break;
ContinueFetching_AnyFailure(attempt, status) ==
    status # 200 /\ attempt < maxDownloadAttempts
ContinueFetching(attempt, status) ==
    status = 404 /\ attempt < maxDownloadAttempts

\* response = await fetch(downloadUrl): a response of some status, or a rejection
FetchOutput(a) ==
    /\ AtFetch(a)
    /\ call.attempt = 0 \/ ContinueFetching(call.attempt, call.status)
    /\ \/ /\ \E s \in ResponseStatuses :
                call' = [call EXCEPT !.attempt = @ + 1, !.status = s]
          /\ UNCHANGED <<pc, err>>
       \/ /\ Throw(a, "fetch failed")
          /\ call' = call
    /\ UNCHANGED <<job, dbVars, thrown, stepUpdated, mediaFinalized, currentBalance,
                   effects, rejected, result, pollVars, fsVars>>

\* after the loop: if (!response || !response.ok) throw new Error('Failed to
\* download render: ...'); otherwise the body is read and uploaded
AfterFetches(a) ==
    /\ AtFetch(a)
    /\ call.attempt >= 1
    /\ ~ContinueFetching(call.attempt, call.status)
    /\ IF call.status = 200
       THEN /\ pc' = Set(pc, a, IF job.kind = "kinetic" THEN "k_upload" ELSE "r_upload")
            /\ err' = err
       ELSE Throw(a, "Failed to download render")
    /\ UNCHANGED <<job, dbVars, thrown, stepUpdated, mediaFinalized, currentBalance,
                   effects, rejected, callVars, pollVars, fsVars>>

\* the rest of the client and of the handler around the download
AroundFetch(a) ==
    \/ Deliver(a)
    \/ RemotionSubmit(a) \/ RemotionPoll(a) \/ RemotionUpload(a)
    \/ job.kind = "remotion" /\ (finalizeRenderSuccess(a) \/ MarkStepFailed(a))
    \/ KineticSubmit(a) \/ KineticPoll(a) \/ KineticUpload(a)
    \/ job.kind = "kinetic" /\ (finalizeProjectSuccess(a) \/ MarkProjectFailed(a))
    \/ deductCredits(a)

InitFetch ==
    /\ job \in PollJobs
    /\ InitRows
    /\ InitAttempts
    /\ PollIdle
    /\ FsIdle
    /\ call = FetchLocals
    /\ result = <<>>

NextFetch ==
    \/ /\ \E a \in PollAttempts : AroundFetch(a)
       /\ UNCHANGED <<pollVars, callVars, fsVars>>
    \/ \E a \in PollAttempts : FetchOutput(a)
    \/ \E a \in PollAttempts : AfterFetches(a)

SpecFetch == InitFetch /\ [][NextFetch]_vars

(***************************************************************************)
(* Scenes of a job of runRemotionRender that gets its duration from the    *)
(* audio: runBeatSync, then buildScenes with the cut frames it returned    *)
(***************************************************************************)
pacingScenes(audioCs, probe, aubioGapCs, pacingStyle, images) ==
    LET synced == runBeatSync(audioCs, probe, aubioGapCs, pacingStyle, images)
    IN  buildScenes(images, synced.totalDurationInFrames, synced.cutFrames,
                    transitionOverlapByStyle[pacingStyle])

\* audio of 10 s, 20 s, ... 90 s; the block runs when there is at least one image
PacingCalls ==
    [fn : {"pacingScenes"}, audioCs : {k * 10 * Cs : k \in 1..9}, probe : {"ok", "failed"},
     aubioGapCs : AubioGaps, pacingStyle : PacingStyles, images : 1..MaxImages]

PacingScenes ==
    Return("pacingScenes",
           pacingScenes(call.audioCs, call.probe, call.aubioGapCs, call.pacingStyle,
                        call.images))

SpecPacing == InitCall(PacingCalls) /\ [][PacingScenes]_vars

(***************************************************************************)
(* buildScenes called directly and through the pacing block                *)
(***************************************************************************)
SpecEdgeScenes ==
    InitCall(BuildScenesCalls \cup PacingCalls) /\ [][BuildScenes \/ PacingScenes]_vars

(***************************************************************************)
(* Filter graph and inputs of the ffmpeg command of VideoProcessor.process. *)
(* A stream label is a pair: <<"input_v", i>> is [i:v], <<"input_a", i>>    *)
(* is [i:a], <<"v", i>> is [v<i>], <<"x", i>> is [x<i>], <<"cap", i>> is    *)
(* [cap<i>], and the labels without a number carry 0.  A filter is the      *)
(* labels it reads and the label it writes                                  *)
(***************************************************************************)
\* the most asset paths of a call
MaxAssets == 4
\* the most cues of a JSON caption file
MaxCues == 3

\* complexFilters, split at the ';' that joins them
complexFilters(assetCount, enabled, captionPath, cueCount, hasMusic) ==
    LET perImage ==
            [i \in 1..assetCount |->
                [ins |-> << <<"input_v", i - 1>> >>, out |-> <<"v", i - 1>>]]
        xfade ==
            IF assetCount > 1
            THEN [i \in 1..(assetCount - 1) |->
                     [ins |-> << (IF i = 1 THEN <<"v", 0>> ELSE <<"x", i - 1>>),
                                 <<"v", i>> >>,
                      out |-> IF i = assetCount - 1
                              THEN <<"v_merged_raw", 0>> ELSE <<"x", i>>]]
            ELSE << [ins |-> << <<"v", 0>> >>, out |-> <<"v_merged_raw", 0>>] >>
        copyFinal == << [ins |-> << <<"v_merged_raw", 0>> >>, out |-> <<"v_final", 0>>] >>
        captions ==
            IF enabled /\ captionPath # "none"
            THEN IF captionPath = "json"
                 THEN IF cueCount = 0 THEN copyFinal
                      ELSE [idx \in 1..cueCount |->
                               [ins |-> << (IF idx = 1 THEN <<"v_merged_raw", 0>>
                                            ELSE <<"cap", idx - 2>>) >>,
                                out |-> IF idx = cueCount
                                        THEN <<"v_final", 0>> ELSE <<"cap", idx - 1>>]]
                 ELSE copyFinal
            ELSE copyFinal
        voIndex == assetCount
        musicIndex == voIndex + 1
        audio ==
            IF hasMusic
            THEN << [ins |-> << <<"input_a", voIndex>> >>, out |-> <<"vo", 0>>],
                    [ins |-> << <<"input_a", musicIndex>> >>, out |-> <<"bg", 0>>],
                    [ins |-> << <<"vo", 0>>, <<"bg", 0>> >>, out |-> <<"a_final", 0>>] >>
            ELSE <<>>
    IN  perImage \o xfade \o captions \o audio

\* the -i arguments, in order: the assets, the narration, the music
inputArgs(assetCount, hasMusic) ==
    [i \in 1..assetCount |-> "asset"] \o <<"audio">>
        \o (IF hasMusic THEN <<"music">> ELSE <<>>)

\* the two -map arguments
mapArgs(assetCount, hasMusic) ==
    << <<"v_final", 0>>,
       IF hasMusic THEN <<"a_final", 0>> ELSE <<"input_a", assetCount>> >>

ProcessCalls ==
    [fn : {"filterGraph"}, assetCount : 0..MaxAssets, enabled : BOOLEAN,
     captionPath : {"none", "json", "ass", "srt"}, cueCount : 0..MaxCues,
     hasMusic : BOOLEAN]

FilterGraph ==
    Return("filterGraph",
           [filters |-> complexFilters(call.assetCount, call.enabled, call.captionPath,
                                       call.cueCount, call.hasMusic),
            inputs |-> inputArgs(call.assetCount, call.hasMusic),
            maps |-> mapArgs(call.assetCount, call.hasMusic)])

SpecFilterGraph == InitCall(ProcessCalls) /\ [][FilterGraph]_vars

(***************************************************************************)
(* deductCredits called by several finalizations of the same user at once  *)
(* (one caller per attempt number, each charging the cost of the job)      *)
(***************************************************************************)
\* await db.deductCredits(info.user_id, creditsToDeduct, ...)
CallDeductCredits(a) ==
    /\ pc[a] = "idle"
    /\ hasUserId
    /\ pc' = Set(pc, a, "credit_select")
    /\ UNCHANGED <<job, dbVars, err, thrown, stepUpdated, mediaFinalized,
                   currentBalance, effects, rejected>>

NextDeduct ==
    /\ \E a \in Attempts :
          \/ CallDeductCredits(a)
          \/ deductCredits(a)
    /\ UNCHANGED <<pollVars, callVars, fsVars>>

SpecDeduct == Init /\ [][NextDeduct]_vars

(***************************************************************************)
(* Media job with the scheduling the runtime gives: an await that can      *)
(* settle does settle, and the queue redelivers a job whose attempt failed *)
(* or stalled while it has attempts left.  A process death is never forced.*)
(***************************************************************************)
SpecRetryFair ==
    /\ Init
    /\ [][NextRetry]_vars
    /\ \A a \in Attempts :
          /\ WF_vars(Redeliver(a) /\ UNCHANGED <<pollVars, callVars, fsVars>>)
          /\ WF_vars(MediaAttempt(a) /\ UNCHANGED <<pollVars, callVars, fsVars>>)

(***************************************************************************)
(* Properties                                                              *)
(***************************************************************************)
\* the attempts whose write or side effect e was applied
Applied(e) == {a \in Attempts : e \in effects[a]}
Bookkeeping == {"step", "media", "credit", "email"}
AfterGateEffects == {"media", "project", "email", "credit", "deduct_called"}

\* C1: across the attempts of a media job (queue retries after a failure or a
\* process death inside finalizeRenderSuccess) each part of the completion
\* bookkeeping is applied by at most one attempt, and once the video is uploaded
\* and the step has left 'processing' while the queue still has a delivery to
\* make, the step becomes 'success' and the media 'completed'.
C1_BookkeepingExactlyOnce ==
    /\ [](\A e \in Bookkeeping : Cardinality(Applied(e)) <= 1)
    /\ ((stored /\ step.status # "processing" /\ \E a \in Attempts : pc[a] = "idle")
            ~> (step.status = "success" /\ media.status = "completed"))

\* C2: of two calls of finalizeRenderSuccess in sequence, the first one that
\* returns has made the step 'success' and the media 'completed', and after it
\* has returned no statement of the second call applies to the step, media,
\* project or user rows, and no email is sent and no credit transaction written.
C2_SecondCallIsNoOp ==
    /\ [](pc[1] = "ok" => /\ step.status = "success" /\ media.status = "completed"
                          /\ {"step", "media"} \subseteq effects[1])
    /\ [][pc[1] = "ok" =>
            UNCHANGED <<step, media, project, balance, ledger, emails, effects>>]_vars

\* C2 witness: the second call has run to its return after the first completed.
C2_SecondCallReturned ==
    /\ pc[1] = "ok" /\ pc[2] = "ok"
    /\ "media" \in effects[1]
    /\ stepUpdated[2] = "false"

\* C3: with attempts of one job inside finalizeRenderSuccess at the same time, the
\* step update applies for at most one attempt, the media is finalized by at most
\* one, at most one email is sent and one credit transaction written, and only
\* the attempt whose media update applied sends the email or calls deductCredits.
C3_AtMostOneFinalizer ==
    /\ Cardinality(Applied("step")) <= 1
    /\ Cardinality(Applied("media")) <= 1
    /\ emails <= 1
    /\ Len(ledger) <= 1
    /\ \A a \in Attempts :
          (\/ effects[a] \cap {"email", "credit", "deduct_called"} # {}
           \/ rejected[a] \cap {"email", "credit"} # {})
              => "media" \in effects[a]

\* C3 witness: one attempt is between its step update and its media update when
\* another attempt's step update has matched no row.
C3_ConcurrentFinalize ==
    \E a, b \in Attempts :
        /\ a # b
        /\ pc[a] = "fin_media" /\ "step" \in effects[a]
        /\ stepUpdated[b] = "false"

\* C4: an attempt whose updateStepStatusOnlyIfProcessing returned false has
\* returned from finalizeRenderSuccess without a media or project update, an
\* email or a call of deductCredits.
C4_GateFalseSkipsAll ==
    \A a \in Attempts :
        stepUpdated[a] = "false" =>
            /\ pc[a] = "ok"
            /\ mediaFinalized[a] = "unset"
            /\ effects[a] \cap AfterGateEffects = {}
            /\ rejected[a] = {}

\* C4 witness: the gate returned false on a step that is 'failed' while the media
\* is not completed.
C4_GateFalseMediaOpen ==
    \E a \in Attempts :
        /\ stepUpdated[a] = "false"
        /\ step.status = "failed"
        /\ media.status # "completed"

\* C5: no step of any attempt changes a step that is 'success', a media that is
\* 'completed' or a project that is 'completed'.
C5_StatusWritesConditional ==
    [][/\ step.status = "success" => step'.status = "success"
       /\ media.status = "completed" => media'.status = "completed"
       /\ project.status = "completed" => project'.status = "completed"]_vars

\* C6: an attempt that rendered, uploaded and returned from finalizeRenderSuccess
\* leaves the step 'success' and the media 'completed', also when an earlier
\* attempt of the job failed.
C6_UploadedAttemptCompletes ==
    \A a \in Attempts :
        pc[a] = "ok" => step.status = "success" /\ media.status = "completed"

\* C7: an attempt whose email or deductCredits rejected after its media update
\* applied is never in the worker's catch block, throws nothing to the queue and
\* writes no 'failed' step; and when it has returned after a rejected email, it
\* has called deductCredits if the media has a user.
C7_AncillaryFailuresSwallowed ==
    \A a \in Attempts :
        rejected[a] \cap {"email", "credit"} # {} =>
            /\ "media" \in effects[a]
            /\ pc[a] \notin {"catch", "failed"}
            /\ thrown[a] = "none"
            /\ "step_failed" \notin effects[a]
            /\ (pc[a] = "ok" /\ "email" \in rejected[a] /\ hasUserId)
                   => "deduct_called" \in effects[a]

\* C7 witness: an attempt returned normally whose email rejected and whose credit
\* deduction was then applied.
C7_EmailFailedCreditDone ==
    \E a \in Attempts :
        /\ pc[a] = "ok"
        /\ "email" \in rejected[a]
        /\ "credit" \in effects[a]

\* C8: an attempt whose step gate applied never reaches the worker's catch block,
\* throws nothing to the queue and does not write the step 'failed'.
C8_AfterGateIsolated ==
    \A a \in Attempts :
        "step" \in effects[a] =>
            /\ pc[a] \notin {"catch", "failed"}
            /\ thrown[a] = "none"
            /\ "step_failed" \notin effects[a]

\* the errors of the stages before finalization
PreFinalizationErrors ==
    {"download failed", "ffmpeg failed", "upload failed", "lambda invoke failed",
     "Failed to download render"} \cup PollErrors

\* C9: the catch block of a worker that caught an error of a stage before
\* finalization throws that same error to the queue, and either its failure
\* write rejected or the step (media jobs) or project (kinetic, video-tools jobs)
\* is 'failed' with the error's message.
C9_FailureRecordedAndRethrown ==
    [][\A a \in Attempts :
          (pc[a] = "catch" /\ pc'[a] = "failed" /\ err[a] \in PreFinalizationErrors) =>
              /\ thrown'[a] = "error"
              /\ \/ "record" \in rejected'[a]
                 \/ /\ job.kind \in {"render", "remotion"}
                    /\ step'.status = "failed" /\ step'.err = err[a]
                 \/ /\ job.kind \in {"kinetic", "video-tools"}
                    /\ project'.status = "failed" /\ project'.err = err[a]]_vars

\* C10: over the attempts of a kinetic job the credit deduction is applied by at
\* most one attempt, and no step changes a project that is 'completed'.
C10_ProjectFinalizeRetrySafe ==
    /\ [](job.kind = "kinetic" => Cardinality(Applied("credit")) <= 1)
    /\ [][(job.kind = "kinetic" /\ project.status = "completed")
              => project'.status = "completed"]_vars

\* the error messages the service put in a progress record
RemoteMessages(r) ==
    (IF r.errorMessage # "" THEN {r.errorMessage} ELSE {}) \cup {r.errors[i] : i \in DOMAIN r.errors}

\* C11: an attempt of runRemotionRender whose progress record had
\* fatalErrorEncountered is in the worker's catch block or has failed; the error
\* it raised is a message of the record when the record carries one; it made no
\* write but the 'failed' step (no finalization, media untouched), and once it
\* has failed the step write was issued.
C11_FatalErrorSurfaced ==
    \A a \in Attempts :
        (job.kind = "remotion" /\ progress[a].fatalErrorEncountered) =>
            /\ pc[a] \in {"catch", "failed"}
            /\ effects[a] \subseteq {"step_failed"}
            /\ (pc[a] = "catch" /\ RemoteMessages(progress[a]) # {})
                   => err[a] \in RemoteMessages(progress[a])
            /\ pc[a] = "failed" => ("step_failed" \in effects[a] \/ "record" \in rejected[a])

\* errors of the awaits around the loop: the submission, a rejected
\* getRenderProgress, and the download, upload and finalization of the output
OutsideLoopErrors ==
    {"lambda invoke failed", "getRenderProgress failed", "Failed to download render",
     "upload failed", "db error", "email failed"}

FatalOutcome(a) ==
    /\ progress[a].fatalErrorEncountered
    /\ err[a] = fatalMessage(progress[a])
TimeoutOutcome(a) ==
    /\ err[a] = "render timeout"
    /\ now >= deadline[a]
FinishedOutcome(a) ==
    /\ progress[a].done /\ progress[a].objectKey
    /\ stored

\* C12 as stated: an attempt whose every getRenderProgress returned leaves the poll
\* loop finished (output stored, finalized), with the remote fatal error, or with
\* the timeout error after the deadline.
C12_ThreeOutcomes ==
    \A a \in Attempts :
        /\ pc[a] = "ok" => FinishedOutcome(a)
        /\ (pc[a] = "catch" /\ err[a] \notin OutsideLoopErrors)
               => FatalOutcome(a) \/ TimeoutOutcome(a)

\* C12 amended: the loop always ends; an attempt leaves it finished, with the
\* error of the record's fatal branch, with the timeout error after the
\* deadline, or with the error that the render finished without an output key;
\* and getRenderProgress is called only while the deadline has not passed.
C12_LoopOutcomes ==
    /\ [](\A a \in Attempts :
             /\ pc[a] = "ok" => FinishedOutcome(a)
             /\ (pc[a] = "catch" /\ err[a] \notin OutsideLoopErrors)
                    => \/ FatalOutcome(a)
                       \/ TimeoutOutcome(a)
                       \/ /\ err[a] = "no output key"
                          /\ progress[a].done /\ ~progress[a].objectKey)
    /\ [][\A a \in Attempts :
             (pc[a] = "p_check" /\ pc'[a] = "p_wait") => now < deadline[a]]_vars
    /\ \A a \in Attempts : InLoop(a) ~> ~InLoop(a)

\* C12 witness: an attempt that polled until the deadline passed has raised the
\* timeout error.
C12_TimedOut ==
    \E a \in Attempts :
        /\ pc[a] = "catch" /\ err[a] = "render timeout"
        /\ now >= deadline[a] /\ deadline[a] = PollTimeoutTicks

\* C13: when the render-tasks handler or runVideoToolsJob settles, and when the
\* pacing block of runRemotionRender is left, on whatever path, the attempt's
\* work directory does not exist unless its removal failed; and the handler
\* settles with the outcome of its try and catch blocks whatever the removal did.
C13_ScratchRemovedOnExit ==
    [][\A a \in Attempts :
          /\ (HandlerSettles(a) /\ job.kind \in {"render", "video-tools"}
                  /\ workDir[a] # NoDir)
                 => /\ workDir[a] \notin dirs' \/ cleanup'[a] = "failed"
                    /\ outcome'[a] = (IF pc'[a] = "ok" THEN "resolved" ELSE thrown'[a])
          /\ (job.kind = "remotion" /\ pc[a] \in PacePcs /\ pc'[a] \notin PacePcs)
                 => /\ workDir[a] \notin dirs' \/ cleanup'[a] = "failed"
                    /\ pc'[a] \in {"submit", "catch"}]_vars

\* C13 witness: an attempt resolved although the removal of its work directory
\* failed, and another attempt failed with its directory removed.
C13_CleanupFailedYetResolved ==
    \E a, b \in Attempts :
        /\ pc[a] = "ok" /\ cleanup[a] = "failed" /\ outcome[a] = "resolved"
        /\ pc[b] = "failed" /\ cleanup[b] = "removed" /\ outcome[b] = "error"

\* C14: the work directory of an attempt that is downloading, encoding or
\* uploading exists, and no other attempt at such a stage has the same one.
C14_ScratchExclusivelyOwned ==
    \A a \in Attempts :
        UsingDir(a) =>
            /\ workDir[a] \in dirs
            /\ \A b \in Attempts \ {a} : UsingDir(b) => workDir[b] # workDir[a]

EqualSplitReturned ==
    /\ call.fn = "buildScenes"
    /\ call.images >= 1
    /\ call.cutFrames = <<>>
    /\ result # <<>>

\* the scenes are one per image, each of floor((total + (N-1)*overlap) / N) frames,
\* their sum is within (N-1)*overlap of the total and every duration is >= 1
EqualSplitWithinTolerance ==
    LET N == call.images
        sum == SumDurations(result[1])
        diff == IF sum >= call.total THEN sum - call.total ELSE call.total - sum
    IN  /\ Len(result[1]) = N
        /\ \A i \in 1..N :
              /\ result[1][i].durationInFrames =
                     (call.total + (N - 1) * call.overlap) \div N
              /\ result[1][i].durationInFrames >= 1
        /\ diff <= (N - 1) * call.overlap

\* C16 as stated: with N >= 1 images and no cut point, for every total in
\* [900, 1800] and every overlap >= 0, buildScenes returns N scenes of
\* floor((total + (N-1)*overlap) / N) frames each, whose sum differs from the total
\* by at most (N-1)*overlap, every duration being >= 1.
C16_EqualSplitAnyOverlap ==
    EqualSplitReturned => EqualSplitWithinTolerance

\* C16 amended: the same for every overlap >= 1 (with no overlap the floor loses up
\* to N-1 frames, which the tolerance (N-1)*overlap = 0 does not allow).
C16_EqualSplitPositiveOverlap ==
    (EqualSplitReturned /\ call.overlap >= 1) => EqualSplitWithinTolerance

\* C16 witness: seven images over 900 frames with the overlap of the viral style
\* were split into scenes whose sum is not the total.
C16_SevenScenesSplit ==
    /\ EqualSplitReturned
    /\ call.images = 7 /\ call.total = 900 /\ call.overlap = 12
    /\ Len(result[1]) = 7
    /\ SumDurations(result[1]) # call.total

\* the frame count a duration call has returned
DurationReturned == call.fn \in {"runBeatSync", "captionDuration"} /\ result # <<>>
ReturnedTotal ==
    IF call.fn = "runBeatSync" THEN result[1].totalDurationInFrames ELSE result[1]

\* C17: the totalDurationInFrames runBeatSync returns is within [900, 1800] for
\* every probed duration; audio of 10 s gives 900 and a failed probe gives 1350
\* (the 45 s fallback); the caption-derived duration of the smooth path is within
\* the same range.
C17_DurationClamped ==
    DurationReturned =>
        /\ ReturnedTotal \in 900..1800
        /\ (call.fn = "runBeatSync" /\ call.probe = "ok" /\ call.audioCs = 1000)
               => ReturnedTotal = 900
        /\ (call.fn = "runBeatSync" /\ call.probe = "failed") => ReturnedTotal = 1350

\* C17 witness: audio of 10 s was probed and the call returned the floor of 900
\* frames.
C17_ShortAudioRaised ==
    /\ call.fn = "runBeatSync" /\ call.probe = "ok" /\ call.audioCs = 1000
    /\ result # <<>>
    /\ result[1].totalDurationInFrames = 900

\* runBeatSync has returned
BeatSyncReturned == call.fn = "runBeatSync" /\ result # <<>>

\* every frame of the list is a whole number from 0 to total
FramesWithin(frames, total) == \A i \in 1..Len(frames) : frames[i] \in 0..total

\* C18: every value of beatFrames, strongBeatFrames and cutFrames that runBeatSync
\* returns is a non-negative integer not greater than the returned
\* totalDurationInFrames, also for audio longer than 60 s and for the fallback grid.
C18_FramesWithinTotal ==
    BeatSyncReturned =>
        LET r == result[1]
        IN  /\ FramesWithin(r.beatFrames, r.totalDurationInFrames)
            /\ FramesWithin(r.strongBeatFrames, r.totalDurationInFrames)
            /\ FramesWithin(r.cutFrames, r.totalDurationInFrames)

\* detectStrongBeats has returned
DetectReturned == call.fn = "detectStrongBeats" /\ result # <<>>

\* m is the median of the gaps between consecutive beats: at most half of the gaps
\* are below it and more than half are not above it (of an even number of gaps, the
\* upper of the two middle ones)
IsMedianGap(beats, m) ==
    LET idx == 1..(Len(beats) - 1)
        gap(i) == beats[i + 1] - beats[i]
        half == (Len(beats) - 1) \div 2
    IN  /\ \E i \in idx : gap(i) = m
        /\ Cardinality({i \in idx : gap(i) < m}) <= half
        /\ Cardinality({i \in idx : gap(i) <= m}) > half

\* the period the claim gives for a style and a beat list
ClaimedPeriod(beats, style) ==
    IF style = "dramatic" THEN 2
    ELSE IF \E m \in 0..60 : IsMedianGap(beats, m) /\ 4 * m > 60 THEN 2
    ELSE 4

KaraokeReturned ==
    /\ call.fn = "generate"
    /\ Len(call.cap.words) > 0
    /\ call.cap.start % 10 = 0
    /\ call.cap.end % 10 = 0
    /\ call.cap.words[Len(call.cap.words)].end = call.cap.end
    /\ result # <<>>

\* C20: the \k durations of the words of a cue, in centiseconds, sum to exactly
\* cue.end - cue.start (stated for the cues that start and end on whole
\* centiseconds and whose last word ends with the cue).
C20_KaraokeSumsToCue ==
    KaraokeReturned =>
        10 * SumSeq(result[1]) = call.cap.end - call.cap.start

\* the document of a call of AssGenerator.generate has been returned
DocumentReturned == call.fn = "assDocument" /\ result # <<>>

\* C21: the font is 'Noto Sans Devanagari' exactly when the language tag denotes
\* Hindi, and 'Arial' for no tag and for every other language; it is the font of the
\* one style of the document, named Default, whatever the preset.
C21_FontFollowsLanguage ==
    DocumentReturned =>
        LET styles == result[1].styles
        IN  /\ Len(styles) = 1
            /\ styles[1].Name = "Default"
            /\ styles[1].Fontname =
                   IF call.language \in HindiTags THEN "Noto Sans Devanagari" ELSE "Arial"

\* C24: for language Hindi the text of the Dialogue lines carries no parenthetical
\* Latin transliteration (no parenthesis and no Latin letter is emitted), and the
\* Devanagari characters of the captions are emitted.
C24_TransliterationRemoved ==
    (DocumentReturned /\ call.language = <<"H", "i", "n", "d", "i">>) =>
        LET emitted ==
                UNION {UNION {{result[1].events[i][j].text[n] :
                                   n \in 1..Len(result[1].events[i][j].text)} :
                               j \in 1..Len(result[1].events[i])} :
                       i \in 1..Len(result[1].events)}
            given ==
                UNION {{call.captions[i].text[n] : n \in 1..Len(call.captions[i].text)} :
                       i \in 1..Len(call.captions)}
            latin == {"(", ")"} \cup {LowerCase[n] : n \in 1..Len(LowerCase)}
                                \cup {UpperCase[n] : n \in 1..Len(UpperCase)}
        IN  /\ emitted \cap latin = {}
            /\ (given \ (latin \cup {" "})) \subseteq emitted

\* the watermark properties of a call have been derived
WatermarkReturned == call.fn = "watermarkProps" /\ result # <<>>

\* the directive monetization.watermark is there
HasDirective == call.monetization = "present" /\ call.watermark = "present"

C23_EncodeSettlesWithTail ==
    /\ [](result # <<>> /\ call.fn \in EncodeFns =>
            \/ result[1].error \in {"none", "spawn"}
            \/ /\ result[1].error \in {"exited", "timeout"}
               /\ result[1].carriesTail
               /\ result[1].tail = Min(call.stderr, TailBlocks))
    /\ (call.fn \in EncodeFns ~> result # <<>>)

\* C25: a failed probe, a failed or missing beat detection, or a failed asset
\* download never fails the attempt.  Stated for the downloads of the render-tasks
\* worker: no attempt ends with the error of a download.
C25_DownloadNeverFailsAttempt ==
    \A a \in Attempts : job.kind = "render" => err[a] # "download failed"

\* attempt a enters stage st
Enters(a, st) == pc'[a] = st /\ pc[a] # st

\* C26: within an attempt of the FFmpeg path encoding starts only after the
\* downloads completed, the upload only after the encoding succeeded and
\* finalizeRenderSuccess only after the upload succeeded; the remote path goes from
\* render done to download, upload and finalization in this order; so an attempt that
\* sets the step to 'success' has uploaded the blob the step records.
C26_StagesStrictlyOrdered ==
    [][\A a \in Attempts :
          /\ Enters(a, "process") => pc[a] = "download"
          /\ Enters(a, "upload") => pc[a] = "process"
          /\ Enters(a, "fetch") => pc[a] = "poll"
          /\ Enters(a, "r_upload") => pc[a] = "fetch"
          /\ Enters(a, "fin_step") => (pc[a] \in {"upload", "r_upload"} /\ stored')
          /\ ("step" \in effects'[a] /\ "step" \notin effects[a]) =>
                 /\ pc[a] = "fin_step"
                 /\ stored
                 /\ step'.status = "success"
                 /\ step'.blob = resultBlobId]_vars

\* C26 witness: an attempt of the FFmpeg path has set the step to 'success' with the
\* blob in storage.
C26_StepSuccessAfterUpload ==
    /\ job.kind = "render"
    /\ \E a \in Attempts : "step" \in effects[a]
    /\ step.status = "success"
    /\ stored

\* the download of the first delivery ended without an OK response
DownloadGaveUp ==
    /\ call.fn = "fetch"
    /\ call.attempt >= 1
    /\ call.status # 200
    /\ ~AtFetch(1)

\* C27: after the render is done the output is fetched at most 3 times, a further
\* fetch is made only after a 404, and any other non-OK status or a 404 on the third
\* fetch raises the download error; then nothing is uploaded to app storage and
\* finalization is not invoked.
C27_BoundedDownloadRetry ==
    /\ [](call.fn = "fetch" => call.attempt <= 3)
    /\ [][(call.fn = "fetch" /\ call'.attempt > call.attempt /\ call.attempt >= 1)
             => call.status = 404]_vars
    /\ [][(AtFetch(1) /\ call.attempt >= 1
             /\ (call.status \in {403, 500} \/ (call.status = 404 /\ call.attempt = 3)))
             => (pc'[1] = "catch" /\ err'[1] = "Failed to download render")]_vars
    /\ [](DownloadGaveUp =>
            /\ ~stored
            /\ effects[1] \subseteq {"step_failed", "project_failed"})

\* C27 witness: the third fetch answered 404 and the attempt ended in the catch
\* block with the download error.
C27_ThirdFetchNotFound ==
    /\ call.fn = "fetch" /\ call.attempt = 3 /\ call.status = 404
    /\ pc[1] = "catch"
    /\ err[1] = "Failed to download render"

\* C28: on the equal-split path the length perceived after cross-fading,
\* N x perScene - (N-1) x overlap, equals totalDurationInFrames, for every N >= 1,
\* overlap >= 0 and total in [900, 1800].
C28_PerceivedLengthIsTotal ==
    EqualSplitReturned =>
        LET N == call.images
        IN  N * result[1][1].durationInFrames - (N - 1) * call.overlap = call.total

\* C28 amended: the perceived length is at most the total and falls short of it by
\* less than N frames (the remainder of the division by N).
C28_PerceivedLengthWithinN ==
    EqualSplitReturned =>
        LET N == call.images
            perceived == N * result[1][1].durationInFrames - (N - 1) * call.overlap
        IN  /\ perceived <= call.total
            /\ call.total - perceived < N
            /\ call.total - perceived = (call.total + (N - 1) * call.overlap) % N

\* C28 witness: seven scenes over 900 frames with an overlap of 12 were returned, and
\* the perceived length is 894 frames.
C28_SevenScenesFallShort ==
    /\ EqualSplitReturned
    /\ call.images = 7 /\ call.total = 900 /\ call.overlap = 12
    /\ 7 * result[1][1].durationInFrames - 6 * 12 = 894

C30_CutScenesSumToTotal ==
    (call.fn = "buildScenes" /\ Len(call.cutFrames) > 0 /\ result # <<>>) =>
        LET scenes == result[1]
            bs == boundaries(call.cutFrames, call.total)
            imageCount == Max(1, call.images)
        IN  /\ Len(scenes) = Len(call.cutFrames) + 1
            /\ \A i \in 1..Len(scenes) :
                  /\ scenes[i].imageIndex = (i - 1) % imageCount
                  /\ (i < Len(scenes) \/ Len(scenes) >= imageCount) =>
                        scenes[i].durationInFrames = Max(1, bs[i + 1] - bs[i])
            /\ SumDurations(scenes) = call.total

\* C31 as stated: in every list buildScenes returns, the scene at position k
\* (counted from 0) has imageIndex k and carries imageUrls[imageIndex].
C31_IndexIsPosition ==
    (call.fn = "buildScenes" /\ result # <<>>) =>
        \A k \in 1..Len(result[1]) :
            /\ result[1][k].imageIndex = k - 1
            /\ result[1][k].imageUrl = urlsOf(call.images)[result[1][k].imageIndex + 1]

\* C31 amended: the scene at position k has imageIndex k mod max(1, number of
\* images) and carries imageUrls[imageIndex]; the index is the position itself
\* whenever there are no more scenes than images, as always on the equal-split path.
C31_IndexIsPositionModImages ==
    (call.fn = "buildScenes" /\ result # <<>>) =>
        LET scenes == result[1]
            imageCount == Max(1, call.images)
        IN  \A k \in 1..Len(scenes) :
                /\ scenes[k].imageIndex = (k - 1) % imageCount
                /\ scenes[k].imageUrl = urlsOf(call.images)[scenes[k].imageIndex + 1]
                /\ (Len(scenes) <= imageCount \/ call.cutFrames = <<>>) =>
                       scenes[k].imageIndex = k - 1

\* C31 witness: three cuts and two images: four scenes that show the images
\* 0, 1, 0, 1.
C31_FourScenesTwoImages ==
    /\ call.fn = "buildScenes" /\ result # <<>>
    /\ call.cutFrames = <<200, 400, 600>> /\ call.images = 2
    /\ [k \in 1..Len(result[1]) |-> result[1][k].imageIndex] = <<0, 1, 0, 1>>
    /\ [k \in 1..Len(result[1]) |-> result[1][k].imageUrl] = <<1, 2, 1, 2>>

\* C32 as stated: buildScenes with an empty image list returns exactly one
\* placeholder scene (imageIndex 0) that lasts the whole totalDurationInFrames, and
\* a job in which no beat was detected gets the scenes of the equal split.
C32_OnePlaceholderScene ==
    /\ (call.fn = "buildScenes" /\ call.images = 0 /\ result # <<>>) =>
          /\ Len(result[1]) = 1
          /\ result[1][1].imageIndex = 0
          /\ result[1][1].durationInFrames = call.total
    /\ (call.fn = "pacingScenes" /\ call.aubioGapCs = 0 /\ result # <<>>) =>
          result[1] = [i \in 1..call.images |->
                         [durationInFrames |->
                             (runBeatSync(call.audioCs, call.probe, 0, call.pacingStyle,
                                          call.images).totalDurationInFrames
                              + (call.images - 1) * transitionOverlapByStyle[call.pacingStyle])
                             \div call.images,
                          imageUrl |-> i,
                          imageIndex |-> i - 1]]

\* C32 amended: buildScenes with an empty image list and no cut frames returns
\* exactly one placeholder scene (imageIndex 0) that lasts the whole
\* totalDurationInFrames, and a job in which no beat was detected gets the scenes
\* of the equal split.
C32_OnePlaceholderSceneWithoutCuts ==
    /\ (call.fn = "buildScenes" /\ call.images = 0 /\ call.cutFrames = <<>>
        /\ result # <<>>) =>
          /\ Len(result[1]) = 1
          /\ result[1][1].imageIndex = 0
          /\ result[1][1].imageUrl = 0
          /\ result[1][1].durationInFrames = call.total
    /\ (call.fn = "pacingScenes" /\ call.aubioGapCs = 0 /\ result # <<>>) =>
          result[1] = [i \in 1..call.images |->
                         [durationInFrames |->
                             (runBeatSync(call.audioCs, call.probe, 0, call.pacingStyle,
                                          call.images).totalDurationInFrames
                              + (call.images - 1) * transitionOverlapByStyle[call.pacingStyle])
                             \div call.images,
                          imageUrl |-> i,
                          imageIndex |-> i - 1]]

\* C32 witness: no images, no cuts, 1000 frames, overlap 12: one scene of 1000
\* frames was returned.
C32_PlaceholderLastsTotal ==
    /\ call.fn = "buildScenes" /\ result # <<>>
    /\ call.images = 0 /\ call.cutFrames = <<>> /\ call.total = 1000 /\ call.overlap = 12
    /\ result[1] = <<[durationInFrames |-> 1000, imageUrl |-> 0, imageIndex |-> 0]>>

\* C33: whenever the nominal period times the median gap exceeds 60 frames,
\* detectStrongBeats uses a reduced period p with p x median gap <= 60 frames, and
\* returns every p-th beat, so that a list of at least p beats gives at least one
\* strong beat.
C33_MinimumDensityGuaranteed ==
    DetectReturned =>
        LET beats == call.beatFrames
            K == Len(beats)
            nominal == IF call.pacingStyle = "dramatic" THEN 2 ELSE 4
            out == result[1]
        IN  \A m \in 0..60 :
                (IsMedianGap(beats, m) /\ nominal * m > 60) =>
                    \E p \in 1..nominal :
                        /\ p * m <= 60
                        /\ K >= p => Len(out) >= 1
                        /\ Len(out) = K \div p
                        /\ \A j \in 1..Len(out) : out[j] = beats[j * p]

\* word k of the cue of the call is not skewed: it ends no earlier than every word in
\* front of it and than the start of the cue
EndsInOrder(k) ==
    /\ call.cap.words[k].end >= call.cap.start
    /\ \A j \in 1..(k - 1) : call.cap.words[j].end <= call.cap.words[k].end

\* C34: for every cue with word timings, the highlight time accumulated through
\* word k equals word k's end minus the start of the cue (stated for the words that
\* end a whole number of centiseconds after the cue starts, the precision of a \k
\* tag); a word whose computed duration is negative gets \k0 and does not move the
\* moment at which a later word's highlight finishes.
C34_HighlightEndsWithWord ==
    (call.fn = "generate" /\ Len(call.cap.words) > 0 /\ result # <<>>) =>
        LET words == call.cap.words
            tags == result[1]
        IN  /\ Len(tags) = Len(words)
            /\ \A k \in 1..Len(words) :
                  /\ (words[k].end - (IF k = 1 THEN call.cap.start ELSE words[k - 1].end) < 0)
                        => tags[k] = 0
                  /\ (EndsInOrder(k) /\ (words[k].end - call.cap.start) % 10 = 0)
                        => 10 * SumSeq(SubSeq(tags, 1, k)) = words[k].end - call.cap.start

\* label is a stream of one of the input files of the command
IsInputStream(g, label) ==
    /\ label[2] + 1 \in 1..Len(g.inputs)
    /\ \/ label[1] = "input_v" /\ g.inputs[label[2] + 1] = "asset"
       \/ label[1] = "input_a" /\ g.inputs[label[2] + 1] \in {"audio", "music"}

\* the filters of g that write label, and the number of times label is read
Producers(g, label) == {n \in 1..Len(g.filters) : g.filters[n].out = label}
TimesRead(g, label) ==
    Cardinality({<<n, k>> \in (1..Len(g.filters)) \X (1..2) :
                    k <= Len(g.filters[n].ins) /\ g.filters[n].ins[k] = label})

\* C35: for every number of assets (none included), captions on or off, every caption
\* format and number of cues, music or not, the filter graph is well-formed: a label
\* a filter reads is an input stream or is written by exactly one earlier filter,
\* every intermediate label is read exactly once, exactly one filter writes
\* [v_final], and with music exactly one filter writes [a_final], the narration
\* being read from input N and the music from input N + 1, as the -i arguments are
\* ordered.
C35_FilterGraphWellFormed ==
    (call.fn = "filterGraph" /\ result # <<>>) =>
        LET g == result[1]
            N == call.assetCount
            fs == g.filters
        IN  /\ \A n \in 1..Len(fs) : \A k \in 1..Len(fs[n].ins) :
                  \/ IsInputStream(g, fs[n].ins[k])
                  \/ /\ Cardinality(Producers(g, fs[n].ins[k])) = 1
                     /\ \A m \in Producers(g, fs[n].ins[k]) : m < n
            /\ \A n \in 1..Len(fs) :
                  fs[n].out \notin {<<"v_final", 0>>, <<"a_final", 0>>}
                      => TimesRead(g, fs[n].out) = 1
            /\ Cardinality(Producers(g, <<"v_final", 0>>)) = 1
            /\ call.hasMusic =>
                  /\ Cardinality(Producers(g, <<"a_final", 0>>)) = 1
                  /\ \A n \in Producers(g, <<"vo", 0>>) : fs[n].ins = << <<"input_a", N>> >>
                  /\ \A n \in Producers(g, <<"bg", 0>>) :
                        fs[n].ins = << <<"input_a", N + 1>> >>
                  /\ g.inputs[N + 1] = "audio"
                  /\ g.inputs[N + 2] = "music"
            /\ \A k \in 1..Len(g.maps) :
                  \/ IsInputStream(g, g.maps[k])
                  \/ Cardinality(Producers(g, g.maps[k])) = 1

\* C36: when every handler that was started has settled (returned or thrown) and
\* the media is 'completed' with a result blob, the render step is 'success' with
\* that same blob.
C36_CompletedMediaHasSuccessStep ==
    (/\ \A a \in Attempts : pc[a] \in {"idle", "ok", "failed"}
     /\ \E a \in Attempts : pc[a] \in {"ok", "failed"}
     /\ media.status = "completed"
     /\ media.blob # "null")
        => (step.status = "success" /\ step.blob = media.blob)

\* C37: concurrent deductCredits calls for one user are serialised: when all of
\* them have completed, credits_balance is the initial balance minus the sum of the
\* amounts, and the balance_after of the ledger rows are the balances after each
\* deduction in turn, whatever the interleaving of the three statements.
C37_DeductionsSerialised ==
    (\A a \in Attempts : pc[a] = "ok" /\ "credit" \in effects[a] /\ rejected[a] = {}) =>
        /\ balance = job.balance - MaxAttempts * creditCost
        /\ Len(ledger) = MaxAttempts
        /\ {ledger[i].balance_after : i \in 1..Len(ledger)}
              = {job.balance - n * creditCost : n \in 1..MaxAttempts}

\* the users row is missing or holds less than the amount
CannotPay == ~userRowExists \/ balance < creditCost

\* C38: credits_balance is never negative; a deductCredits call that finds no user
\* or too small a balance throws without changing the balance or the ledger, and
\* inside finalization it leaves the media 'completed' and the step as it was
\* ('success' unless another attempt's failure handler wrote it), the finalization
\* returning normally with no charge recorded.
C38_NoOverdraft ==
    /\ [](balance >= 0)
    /\ [][\A a \in Attempts :
            (pc[a] = "credit_select" /\ pc'[a] \notin {"credit_select", "crashed"}
             /\ CannotPay) =>
                /\ pc'[a] = "ok"
                /\ UNCHANGED <<balance, ledger, media, step>>
                /\ media.status = "completed"
                /\ (\A b \in Attempts : "step_failed" \notin effects[b])
                      => step.status = "success"]_vars
    /\ [](\A a \in Attempts :
            ("credit" \in rejected[a] /\ "credit" \notin effects[a]) =>
                /\ pc[a] = "ok"
                /\ thrown[a] = "none"
                /\ "step_failed" \notin effects[a]
                /\ ledger = <<>>
                /\ balance = job.balance)

\* C38 witness: a user with no credits: deductCredits threw inside the
\* finalization, which returned with the media 'completed', the step 'success',
\* the balance untouched and no ledger row.
C38_InsufficientCreditsSwallowed ==
    \E a \in Attempts :
        /\ job.userCase = "full" /\ job.balance = 0 /\ creditCost = 1
        /\ pc[a] = "ok"
        /\ "credit" \in rejected[a]
        /\ media.status = "completed" /\ step.status = "success"
        /\ balance = 0 /\ ledger = <<>>

\* C39: runFfmpegWithTimeout settles once, whatever the order of the timer and the
\* 'close' and 'error' events: the timer fires only on a child that has not closed,
\* kills it and rejects with the timeout error, and the 'close' that follows
\* changes nothing; after a 'close' or 'error' the timer is cleared and never
\* fires, kills or rejects.
C39_SettlesOnce ==
    /\ [][call.fn = "runFfmpegWithTimeout" =>
            /\ result # <<>> => result' = result
            /\ (call.timer = "armed" /\ call'.timer = "fired") =>
                  /\ call'.child = "killed"
                  /\ result = <<>>
                  /\ result'[1].error = "timeout"
            /\ call.timer = "cleared" =>
                  /\ call'.timer = "cleared"
                  /\ call'.child # "killed"]_vars
    /\ []((call.fn = "runFfmpegWithTimeout" /\ call.timer = "cleared") =>
            /\ result # <<>>
            /\ result[1].error \in {"none", "exited", "spawn"})
    /\ []((call.fn = "runFfmpegWithTimeout" /\ call.timer = "fired") =>
            /\ result # <<>>
            /\ result[1].error = "timeout")

\* C39 witness: the timer fired on a child that had written stderr, the child was
\* killed and has closed, and the promise is still rejected with the timeout error.
C39_CloseAfterTimeout ==
    /\ call.fn = "runFfmpegWithTimeout"
    /\ call.timer = "fired" /\ call.child = "closed" /\ call.stderr > 0
    /\ result # <<>>
    /\ result[1].error = "timeout"

====
